---- MODULE Spec2Model ----
(***************************************************************************)
(* A model of the p2p_lan_chat peer runtime: the threshold decision        *)
(* engine (src/src/crypto/threshold.rs), the peer registry and its         *)
(* handlers, the outbound broadcaster, the inbound chat dispatch, the      *)
(* connection loop, Peer::new and the shutdown paths.                      *)
(*                                                                         *)
(* Every task of the tokio runtime is a slot of `task`.  A task runs one   *)
(* operation at a time; every lock acquisition of the operation            *)
(* (`.read().await`, `.write().await`, `.lock().await`) is one atomic      *)
(* step, and tasks interleave between steps.                               *)
(***************************************************************************)
EXTENDS Integers, Sequences, FiniteSets, TLC

VARIABLES
    proposals,            \* ThresholdManager.proposals: proposal_id -> UpgradeProposal
    votes,                \* ThresholdManager.votes: proposal_id -> Vec<UpgradeVote>
    partial_signatures,   \* ThresholdManager.partial_signatures: proposal_id -> Vec
    proposal_states,      \* ThresholdManager.proposal_states: proposal_id -> ProposalState
    secure_only_enabled,  \* ThresholdManager.secure_only_enabled
    peers,                \* Peer.peers: the registry, peer id -> PeerInfo
    peers_lock,           \* the task holding the registry mutex, or NoTask
    known_keys,           \* CryptoManager.known_keys: peer id -> verifying key
    display,              \* the lines published on Peer.message_sender, oldest first
    discovery_sent,       \* peer id -> number of Discovery sends the observe loop spawned
    received,             \* number of mDNS responses and Discovery messages processed
    intake,               \* the last registry message that carried the local id or was
                          \* an Exit, and what came of it
    network,              \* the upgrade messages written to this peer and not yet read
    task,                 \* per task: the running operation, its position and locals
    calls                 \* number of operations invoked so far

engineVars == <<proposals, votes, partial_signatures, proposal_states, secure_only_enabled>>
peerVars == <<peers, peers_lock, known_keys, display, discovery_sent, received, intake, network>>
vars == <<proposals, votes, partial_signatures, proposal_states, secure_only_enabled,
          peers, peers_lock, known_keys, display, discovery_sent, received, intake,
          network, task, calls>>

----------------------------------------------------------------------------
(* Bounds of the model *)

MaxCalls == 3       \* operations invoked in one behaviour
MaxRequired == 2    \* largest required_approvals a proposal carries
MaxReceived == 2    \* mDNS responses and Discovery messages processed in one behaviour
MaxPublished == 103 \* lines published on the display bus in one behaviour

Tasks == {"t1", "t2"}     \* two tasks of the runtime, running concurrently
ProposalIds == {"p1"}
\* the ids of the specification in which two proposals live side by side;
\* create_proposal generates p1 first
TwoProposalIds == {"p1", "p2"}
\* Peer.peer_id, the local peer's id (strings are sequences of characters)
peer_id == <<"a">>
Voters == {peer_id, <<"b">>}
Descriptions == {"d1"}
TotalPeers == {MaxRequired + 1}

----------------------------------------------------------------------------
(* Data *)

\* Option<T>: <<>> is None, <<x>> is Some(x)
None == <<>>
Some(x) == <<x>>

ProposalState == {"Open", "Approved", "Rejected"}

UpgradeProposal(id, d, m, n) ==
    [proposal_id |-> id, description |-> d, required_approvals |-> m, total_peers |-> n]

UpgradeVote(id, voter, approved) ==
    [proposal_id |-> id, voter_id |-> voter, approved |-> approved]

\* HashMap::insert
MapInsert(map, k, v) == [x \in (DOMAIN map) \cup {k} |-> IF x = k THEN v ELSE map[x]]

\* HashMap::get(..).cloned().unwrap_or_default() on a map of vectors
GetOrEmpty(map, k) == IF k \in DOMAIN map THEN map[k] ELSE <<>>

EmptyMap == [x \in {} |-> 0]

\* votes.iter().filter(|v| v.approved).count()
RECURSIVE approval_count(_)
approval_count(vs) ==
    IF vs = <<>> THEN 0
    ELSE (IF Head(vs).approved THEN 1 ELSE 0) + approval_count(Tail(vs))

\* A duplicate check that also compares the vote's value
has_voted_same_value(existing_votes, vote) ==
    \E i \in 1..Len(existing_votes) :
        /\ existing_votes[i].voter_id = vote.voter_id
        /\ existing_votes[i].approved = vote.approved

\* existing_votes.iter().any(|v| v.voter_id == voter_id)
has_voted(existing_votes, vote) ==
    \E i \in 1..Len(existing_votes) : existing_votes[i].voter_id = vote.voter_id

\* approval_count >= proposal.required_approvals
threshold_met(count, proposal) == count >= proposal.required_approvals

----------------------------------------------------------------------------
(* Tasks *)

NoTask == "none"

Idle ==
    [op |-> "idle", pc |-> "done", caller |-> "", proposal_id |-> "", proposal |-> None,
     vote |-> None, msg |-> None, peers_count |-> 0, todo |-> {}, out |-> {},
     successful_sends |-> 0, secure_at_call |-> FALSE, result |-> "none",
     active |-> {}, peer |-> None, stream |-> <<>>, pos |-> 0, dispatched |-> <<>>,
     exit_broadcast |-> FALSE, slept |-> FALSE, missed |-> 0]

\* a call of an operation of the decision engine
Call(o, p, id, prop, v) ==
    [Idle EXCEPT !.op = o, !.pc = p, !.proposal_id = id, !.proposal = prop, !.vote = v]

\* a call of an operation of the peer, m its argument
PeerCall(o, p, m) ==
    [Idle EXCEPT !.op = o, !.pc = p, !.msg = m, !.secure_at_call = secure_only_enabled]

\* where the calling operation goes on when the engine call it made returns r
\* (both callers return the error of the call with `?`)
Resume(caller, r) ==
    CASE caller = "propose_secure_upgrade" /\ r = "Ok" -> "bup_proposal"
      [] caller = "vote_on_proposal" /\ r = "Ok" -> "bpv_votes"
      [] caller = "handle_upgrade_request" -> "hur_display"
      [] caller = "handle_upgrade_vote" -> "huv_display"
      [] caller = "/quit" -> "quit_shutdown"
      [] caller = "shutdown" -> "sd_sleep"
      [] caller = "handle_signals" -> "hs_exit"
      [] OTHER -> "done"

At(t, o, p) == task[t].op = o /\ task[t].pc = p

Goto(t, p) == task' = [task EXCEPT ![t].pc = p] /\ UNCHANGED calls

\* task t, between operations, invokes one
Invoke(t, call) ==
    /\ task[t].pc = "done"
    /\ calls < MaxCalls
    /\ task' = [task EXCEPT ![t] = call]
    /\ calls' = calls + 1

\* the locals of a task whose call returns r, to its caller if it has one
Returned(cur, r) ==
    IF Resume(cur.caller, r) = "done"
    THEN [cur EXCEPT !.op = IF cur.caller = "" THEN cur.op ELSE cur.caller,
                     !.caller = "", !.pc = "done", !.proposal = None, !.msg = None,
                     !.todo = {}, !.result = r]
    ELSE [cur EXCEPT !.op = cur.caller, !.caller = "", !.pc = Resume(cur.caller, r)]

Return(t, r) ==
    /\ task' = [task EXCEPT ![t] = Returned(task[t], r)]
    /\ UNCHANGED calls

\* the tables whose guard is alive at the position of task t: the two read
\* guards of get_active_proposals, and the registry guard of a fan-out
guards(t) ==
    (IF task[t].op = "get_active_proposals" /\ task[t].pc \in {"gap_states", "gap_collect"}
     THEN {"proposals"} ELSE {})
      \cup (IF task[t].op = "get_active_proposals" /\ task[t].pc = "gap_collect"
            THEN {"proposal_states"} ELSE {})
      \cup (IF peers_lock = t THEN {"peers"} ELSE {})

\* RwLock::write().await waits while a read guard of the table is alive
read_locked(table) == \E t \in Tasks : table \in guards(t)

Init ==
    /\ proposals = EmptyMap
    /\ votes = EmptyMap
    /\ partial_signatures = EmptyMap
    /\ proposal_states = EmptyMap
    /\ secure_only_enabled = FALSE
    /\ peers = EmptyMap
    /\ peers_lock = NoTask
    /\ known_keys = EmptyMap
    /\ display = <<>>
    /\ discovery_sent = EmptyMap
    /\ received = 0
    /\ intake = None
    /\ network = {}
    /\ task = [t \in Tasks |-> Idle]
    /\ calls = 0

----------------------------------------------------------------------------
(* ThresholdManager::create_proposal *)

\* Uuid::new_v4(): an id no table and no running call holds
FreshIdsOf(ids) ==
    ids \ ((DOMAIN proposals) \cup (DOMAIN votes) \cup (DOMAIN partial_signatures)
           \cup (DOMAIN proposal_states) \cup {task[t].proposal_id : t \in Tasks})

FreshIds == FreshIdsOf(ProposalIds)

\* the next generated id of TwoProposalIds (which id a call generates makes no
\* difference to the code)
NextFreshId ==
    IF "p1" \in FreshIdsOf(TwoProposalIds) THEN {"p1"} ELSE FreshIdsOf(TwoProposalIds)

\* the ids a caller or a remote peer can name: a generated id is known to
\* nobody before create_proposal has returned it
NameableIdsOf(ids) ==
    ids \ {task[t].proposal_id :
              t \in {u \in Tasks : task[u].op = "create_proposal" /\ task[u].pc # "done"}}

NameableIds == NameableIdsOf(ProposalIds)

CreateProposalOf(t, fresh) ==
    /\ \E id \in fresh, d \in Descriptions, m \in 0..MaxRequired, n \in TotalPeers :
          Invoke(t, Call("create_proposal", "cp_proposals", id,
                           Some(UpgradeProposal(id, d, m, n)), None))
    /\ UNCHANGED engineVars

StartCreateProposal(t) == CreateProposalOf(t, FreshIds)

CpProposals(t) ==
    /\ At(t, "create_proposal", "cp_proposals")
    /\ ~read_locked("proposals")
    /\ proposals' = MapInsert(proposals, task[t].proposal_id, task[t].proposal[1])
    /\ Goto(t, "cp_votes")
    /\ UNCHANGED <<votes, partial_signatures, proposal_states, secure_only_enabled>>

CpVotes(t) ==
    /\ At(t, "create_proposal", "cp_votes")
    /\ votes' = MapInsert(votes, task[t].proposal_id, <<>>)
    /\ Goto(t, "cp_partial")
    /\ UNCHANGED <<proposals, partial_signatures, proposal_states, secure_only_enabled>>

CpPartial(t) ==
    /\ At(t, "create_proposal", "cp_partial")
    /\ partial_signatures' = MapInsert(partial_signatures, task[t].proposal_id, <<>>)
    /\ Goto(t, "cp_states")
    /\ UNCHANGED <<proposals, votes, proposal_states, secure_only_enabled>>

CpStates(t) ==
    /\ At(t, "create_proposal", "cp_states")
    /\ ~read_locked("proposal_states")
    /\ proposal_states' = MapInsert(proposal_states, task[t].proposal_id, "Open")
    /\ Return(t, "Ok")
    /\ UNCHANGED <<proposals, votes, partial_signatures, secure_only_enabled>>

----------------------------------------------------------------------------
(* ThresholdManager::insert_received_proposal *)

InsertReceivedProposalOf(t, ids) ==
    /\ \E id \in NameableIdsOf(ids), d \in Descriptions, m \in 0..MaxRequired, n \in TotalPeers :
          Invoke(t, Call("insert_received_proposal", "irp_exists", id,
                           Some(UpgradeProposal(id, d, m, n)), None))
    /\ UNCHANGED engineVars

StartInsertReceivedProposal(t) == InsertReceivedProposalOf(t, ProposalIds)

\* let exists = self.get_proposal(&proposal.proposal_id).await.is_some();
IrpExists(t) ==
    /\ At(t, "insert_received_proposal", "irp_exists")
    /\ IF task[t].proposal_id \in DOMAIN proposals
       THEN Return(t, "Ok")
       ELSE Goto(t, "irp_proposals")
    /\ UNCHANGED engineVars

IrpProposals(t) ==
    /\ At(t, "insert_received_proposal", "irp_proposals")
    /\ ~read_locked("proposals")
    /\ proposals' = MapInsert(proposals, task[t].proposal_id, task[t].proposal[1])
    /\ Goto(t, "irp_votes")
    /\ UNCHANGED <<votes, partial_signatures, proposal_states, secure_only_enabled>>

IrpVotes(t) ==
    /\ At(t, "insert_received_proposal", "irp_votes")
    /\ votes' = MapInsert(votes, task[t].proposal_id, <<>>)
    /\ Goto(t, "irp_partial")
    /\ UNCHANGED <<proposals, partial_signatures, proposal_states, secure_only_enabled>>

IrpPartial(t) ==
    /\ At(t, "insert_received_proposal", "irp_partial")
    /\ partial_signatures' = MapInsert(partial_signatures, task[t].proposal_id, <<>>)
    /\ Goto(t, "irp_states")
    /\ UNCHANGED <<proposals, votes, proposal_states, secure_only_enabled>>

IrpStates(t) ==
    /\ At(t, "insert_received_proposal", "irp_states")
    /\ ~read_locked("proposal_states")
    /\ proposal_states' = MapInsert(proposal_states, task[t].proposal_id, "Open")
    /\ Return(t, "Ok")
    /\ UNCHANGED <<proposals, votes, partial_signatures, secure_only_enabled>>

----------------------------------------------------------------------------
(* ThresholdManager::cast_vote *)

CastVoteOf(t, ids) ==
    /\ \E id \in NameableIdsOf(ids), voter \in Voters, approved \in BOOLEAN :
          Invoke(t, Call("cast_vote", "cv_state", id, None,
                           Some(UpgradeVote(id, voter, approved))))
    /\ UNCHANGED engineVars

StartCastVote(t) == CastVoteOf(t, ProposalIds)

\* A state check that only requires the entry to exist
CvState_any_state(t) ==
    /\ At(t, "cast_vote", "cv_state")
    /\ IF task[t].proposal_id \notin DOMAIN proposal_states
       THEN Return(t, "Err")
       ELSE Goto(t, "cv_voted")
    /\ UNCHANGED engineVars

\* the state must exist and be Open
CvState(t) ==
    /\ At(t, "cast_vote", "cv_state")
    /\ IF task[t].proposal_id \notin DOMAIN proposal_states
       THEN Return(t, "Err")
       ELSE IF proposal_states[task[t].proposal_id] # "Open"
            THEN Return(t, "Err")
            ELSE Goto(t, "cv_voted")
    /\ UNCHANGED engineVars

\* the duplicate check, under one read guard of the votes table
CvVoted(t) ==
    /\ At(t, "cast_vote", "cv_voted")
    /\ IF /\ task[t].proposal_id \in DOMAIN votes
          /\ has_voted(votes[task[t].proposal_id], task[t].vote[1])
       THEN Return(t, "Err")
       ELSE Goto(t, "cv_push")
    /\ UNCHANGED engineVars

\* self.votes.write().await.entry(..).or_insert_with(Vec::new).push(vote)
CvPush(t) ==
    /\ At(t, "cast_vote", "cv_push")
    /\ votes' = MapInsert(votes, task[t].proposal_id,
                          Append(GetOrEmpty(votes, task[t].proposal_id), task[t].vote[1]))
    /\ Goto(t, "ct_proposal")
    /\ UNCHANGED <<proposals, partial_signatures, proposal_states, secure_only_enabled>>

----------------------------------------------------------------------------
(* ThresholdManager::check_threshold, called by cast_vote (which returns its
   error) and by handle_received_vote (which drops it) *)

InCheckThreshold(t, p) ==
    /\ task[t].op \in {"cast_vote", "handle_received_vote"}
    /\ task[t].pc = p

CtError(t) == IF task[t].op = "cast_vote" THEN "Err" ELSE "Ok"

CtProposal(t) ==
    /\ InCheckThreshold(t, "ct_proposal")
    /\ IF task[t].proposal_id \notin DOMAIN proposals
       THEN Return(t, CtError(t))
       ELSE /\ task' = [task EXCEPT ![t].pc = "ct_votes",
                                    ![t].proposal = Some(proposals[task[t].proposal_id])]
            /\ UNCHANGED calls
    /\ UNCHANGED engineVars

\* A threshold check that stores the comparison in the flag on both branches
CtVotes_assign_flag(t) ==
    /\ InCheckThreshold(t, "ct_votes")
    /\ IF task[t].proposal_id \notin DOMAIN votes
       THEN Return(t, CtError(t)) /\ UNCHANGED secure_only_enabled
       ELSE IF threshold_met(approval_count(votes[task[t].proposal_id]), task[t].proposal[1])
            THEN Goto(t, "ct_state") /\ UNCHANGED secure_only_enabled
            ELSE Return(t, "Ok") /\ secure_only_enabled' = FALSE
    /\ UNCHANGED <<proposals, votes, partial_signatures, proposal_states>>

\* A threshold check that rejects the proposal while the approvals are short
CtVotes_rejects(t) ==
    /\ InCheckThreshold(t, "ct_votes")
    /\ IF task[t].proposal_id \notin DOMAIN votes
       THEN Return(t, CtError(t)) /\ UNCHANGED proposal_states
       ELSE IF threshold_met(approval_count(votes[task[t].proposal_id]), task[t].proposal[1])
            THEN Goto(t, "ct_state") /\ UNCHANGED proposal_states
            ELSE /\ Return(t, "Ok")
                 /\ proposal_states' = MapInsert(proposal_states, task[t].proposal_id, "Rejected")
    /\ UNCHANGED <<proposals, votes, partial_signatures, secure_only_enabled>>

CtVotes(t) ==
    /\ InCheckThreshold(t, "ct_votes")
    /\ IF task[t].proposal_id \notin DOMAIN votes
       THEN Return(t, CtError(t))
       ELSE IF threshold_met(approval_count(votes[task[t].proposal_id]), task[t].proposal[1])
            THEN Goto(t, "ct_state")
            ELSE Return(t, "Ok")
    /\ UNCHANGED engineVars

CtState(t) ==
    /\ InCheckThreshold(t, "ct_state")
    /\ ~read_locked("proposal_states")
    /\ proposal_states' = MapInsert(proposal_states, task[t].proposal_id, "Approved")
    /\ Goto(t, "ct_flag")
    /\ UNCHANGED <<proposals, votes, partial_signatures, secure_only_enabled>>

CtFlag(t) ==
    /\ InCheckThreshold(t, "ct_flag")
    /\ secure_only_enabled' = TRUE
    /\ Return(t, "Ok")
    /\ UNCHANGED <<proposals, votes, partial_signatures, proposal_states>>

----------------------------------------------------------------------------
(* ThresholdManager::handle_received_vote *)

HandleReceivedVoteOf(t, ids) ==
    /\ \E id \in NameableIdsOf(ids), voter \in Voters, approved \in BOOLEAN :
          Invoke(t, Call("handle_received_vote", "hrv_existing", id, None,
                           Some(UpgradeVote(id, voter, approved))))
    /\ UNCHANGED engineVars

StartHandleReceivedVote(t) == HandleReceivedVoteOf(t, ProposalIds)

\* A duplicate check that also drops the vote unless the proposal is Open
HrvExisting_open_only(t) ==
    /\ At(t, "handle_received_vote", "hrv_existing")
    /\ IF \/ has_voted(GetOrEmpty(votes, task[t].proposal_id), task[t].vote[1])
          \/ (task[t].proposal_id \notin DOMAIN proposal_states
             \/ proposal_states[task[t].proposal_id] # "Open")
       THEN Return(t, "Ok")
       ELSE Goto(t, "hrv_push")
    /\ UNCHANGED engineVars

\* let existing_votes = self.get_proposal_votes(&vote.proposal_id).await;
HrvExisting(t) ==
    /\ At(t, "handle_received_vote", "hrv_existing")
    /\ IF has_voted(GetOrEmpty(votes, task[t].proposal_id), task[t].vote[1])
       THEN Return(t, "Ok")
       ELSE Goto(t, "hrv_push")
    /\ UNCHANGED engineVars

HrvPush(t) ==
    /\ At(t, "handle_received_vote", "hrv_push")
    /\ votes' = MapInsert(votes, task[t].proposal_id,
                          Append(GetOrEmpty(votes, task[t].proposal_id), task[t].vote[1]))
    /\ Goto(t, "ct_proposal")
    /\ UNCHANGED <<proposals, partial_signatures, proposal_states, secure_only_enabled>>

----------------------------------------------------------------------------
(* ThresholdManager::handle_upgrade_activation *)

StartHandleUpgradeActivation(t) ==
    /\ \E id \in NameableIds :
          Invoke(t, Call("handle_upgrade_activation", "hua_state", id, None, None))
    /\ UNCHANGED engineVars

HuaState(t) ==
    /\ At(t, "handle_upgrade_activation", "hua_state")
    /\ ~read_locked("proposal_states")
    /\ proposal_states' = MapInsert(proposal_states, task[t].proposal_id, "Approved")
    /\ Goto(t, "hua_flag")
    /\ UNCHANGED <<proposals, votes, partial_signatures, secure_only_enabled>>

HuaFlag(t) ==
    /\ At(t, "handle_upgrade_activation", "hua_flag")
    /\ secure_only_enabled' = TRUE
    /\ Return(t, "Ok")
    /\ UNCHANGED <<proposals, votes, partial_signatures, proposal_states>>

----------------------------------------------------------------------------
(* Queries *)

is_secure_only_enabled == secure_only_enabled

get_proposal_state(id) ==
    IF id \in DOMAIN proposal_states THEN Some(proposal_states[id]) ELSE None

get_proposal(id) == IF id \in DOMAIN proposals THEN Some(proposals[id]) ELSE None

get_proposal_votes(id) == GetOrEmpty(votes, id)

----------------------------------------------------------------------------
(* ThresholdManager::get_active_proposals *)

\* the query writes no table, so it is not counted among the operations that
\* MaxCalls bounds
StartGetActiveProposals(t) ==
    /\ task[t].pc = "done"
    /\ task' = [task EXCEPT ![t] = Call("get_active_proposals", "gap_proposals", "", None, None)]
    /\ UNCHANGED calls
    /\ UNCHANGED engineVars

\* let proposals = self.proposals.read().await;
GapProposals(t) ==
    /\ At(t, "get_active_proposals", "gap_proposals")
    /\ Goto(t, "gap_states")
    /\ UNCHANGED engineVars

\* A query that asks for the write guard of proposals while it holds its
\* read guard
GapStates_write_locks(t) ==
    /\ At(t, "get_active_proposals", "gap_states")
    /\ ~read_locked("proposals")
    /\ Goto(t, "gap_collect")
    /\ UNCHANGED engineVars

\* let states = self.proposal_states.read().await;  (the first guard is alive)
GapStates(t) ==
    /\ At(t, "get_active_proposals", "gap_states")
    /\ Goto(t, "gap_collect")
    /\ UNCHANGED engineVars

\* A filter that keeps every proposal that has a state
active_proposals_any_state ==
    {proposals[id] : id \in {k \in DOMAIN proposals :
                                get_proposal_state(proposals[k].proposal_id) # None}}

\* .filter(|p| matches!(states.get(&p.proposal_id), Some(ProposalState::Open)))
active_proposals ==
    {proposals[id] : id \in {k \in DOMAIN proposals :
                                get_proposal_state(proposals[k].proposal_id) = Some("Open")}}

\* the filter and the collect, under both guards, which end with the function
GapCollect(t) ==
    /\ At(t, "get_active_proposals", "gap_collect")
    /\ task' = [task EXCEPT ![t] = [Returned(task[t], "Ok") EXCEPT !.active = active_proposals]]
    /\ UNCHANGED calls
    /\ UNCHANGED engineVars

GetActiveProposalsStep(t) ==
    \/ StartGetActiveProposals(t) \/ GapProposals(t) \/ GapStates(t) \/ GapCollect(t)

----------------------------------------------------------------------------
(* The decision engine, its operations called from concurrent tasks *)

\* the steps of a running operation
CheckThresholdBody(t) == CtProposal(t) \/ CtVotes(t) \/ CtState(t) \/ CtFlag(t)

CreateBody(t) == CpProposals(t) \/ CpVotes(t) \/ CpPartial(t) \/ CpStates(t)

InsertBody(t) ==
    IrpExists(t) \/ IrpProposals(t) \/ IrpVotes(t) \/ IrpPartial(t) \/ IrpStates(t)

VoteBody(t) ==
    \/ CvState(t) \/ CvVoted(t) \/ CvPush(t)
    \/ CtProposal(t) \/ CtVotes(t) \/ CtState(t) \/ CtFlag(t)
    \/ HrvExisting(t) \/ HrvPush(t)

VotingBody(t) == CreateBody(t) \/ InsertBody(t) \/ VoteBody(t)

VotingStep(t) ==
    \/ StartCreateProposal(t) \/ StartInsertReceivedProposal(t)
    \/ StartCastVote(t) \/ StartHandleReceivedVote(t)
    \/ VotingBody(t)

ActivationStep(t) ==
    \/ StartHandleUpgradeActivation(t) \/ HuaState(t) \/ HuaFlag(t)

NextVoting == \E t \in Tasks : VotingStep(t) /\ UNCHANGED peerVars

Next == \E t \in Tasks : (VotingStep(t) \/ ActivationStep(t)) /\ UNCHANGED peerVars

\* two proposals of this peer side by side, the local votes on either, the
\* received votes on the first, and the query of the active ones
NextProposals ==
    \E t \in Tasks :
       /\ \/ CreateProposalOf(t, NextFreshId) \/ CreateBody(t)
          \/ CastVoteOf(t, TwoProposalIds) \/ HandleReceivedVoteOf(t, ProposalIds)
          \/ VoteBody(t)
          \/ GetActiveProposalsStep(t)
       /\ UNCHANGED peerVars

SpecProposals == Init /\ [][NextProposals]_vars

\* the four voting operations
SpecVoting == Init /\ [][NextVoting]_vars

\* the voting operations and handle_upgrade_activation
Spec == Init /\ [][Next]_vars

----------------------------------------------------------------------------
(* Strings, addresses and PeerInfo *)

NameLimit == 128       \* the longest valid name
LocalPort == 8080      \* Peer.port of the local peer

\* Peer.name of the local peer
LocalName == <<"A">>

Whitespace == {" ", "\t"}

\* str::trim on a sequence of characters
RECURSIVE trim_start(_)
trim_start(s) == IF s # <<>> /\ Head(s) \in Whitespace THEN trim_start(Tail(s)) ELSE s

RECURSIVE trim_end(_)
trim_end(s) ==
    IF s # <<>> /\ s[Len(s)] \in Whitespace THEN trim_end(SubSeq(s, 1, Len(s) - 1)) ELSE s

trim(s) == trim_end(trim_start(s))

is_empty(s) == Len(s) = 0

----------------------------------------------------------------------------
(* Peer::new: the normalisation of the name and the port *)

NewNameLimit == 128    \* the longest name Peer::new keeps
DefaultPort == 8080    \* the port Peer::new stores for port 0
MaxPort == 65535       \* u16::MAX

Anonymous == <<"A", "n", "o", "n", "y", "m", "o", "u", "s">>

\* a character of two bytes in UTF-8
TwoByteChar == "U+00E9"

\* str::len: the length in bytes, one per character and one more per
\* character of two bytes
len(s) == Len(s) + Cardinality({i \in 1..Len(s) : s[i] = TwoByteChar})

\* a normalisation that measures the name before trimming it
Peer_new_name_untrimmed_length(name) ==
    IF is_empty(trim(name)) \/ len(name) > NewNameLimit THEN Anonymous ELSE trim(name)

\* let valid_name = name.trim();
\* let name = if valid_name.is_empty() || valid_name.len() > 128 { "Anonymous" } else { valid_name }
Peer_new_name(name) ==
    LET valid_name == trim(name)
    IN  IF is_empty(valid_name) \/ len(valid_name) > NewNameLimit THEN Anonymous ELSE valid_name

\* a normalisation that keeps every port
Peer_new_port_verbatim(port) == port

\* let port = if port == 0 { 8080 } else { port };
Peer_new_port(port) == IF port = 0 THEN DefaultPort ELSE port

Peer_new(name, port) == [name |-> Peer_new_name(name), port |-> Peer_new_port(port)]

\* s surrounded by whitespace
Padded(s) == <<" ">> \o s \o <<"\t", " ">>

Repeat(c, n) == [i \in 1..n |-> c]

\* the names given to Peer::new: empty, blank, short, padded, of two-byte
\* characters, and around the limit before and after trimming
NameInputs ==
    {<<>>, <<" ">>, <<"\t", " ">>, <<"B", "o", "b">>, Padded(<<"B", "o", "b">>),
     <<"B", " ", "b">>, <<TwoByteChar>>,
     Repeat("a", NewNameLimit - 1), Repeat("a", NewNameLimit), Repeat("a", NewNameLimit + 1),
     Padded(Repeat("a", NewNameLimit - 1)), Padded(Repeat("a", NewNameLimit)),
     Padded(Repeat("a", NewNameLimit + 1)),
     Repeat(TwoByteChar, NewNameLimit \div 2), Repeat(TwoByteChar, (NewNameLimit \div 2) + 1)}

PortInputs == {0, 1, DefaultPort, 9000, MaxPort}

\* a task constructs a Peer from a name and a port
PeerNew(t) ==
    /\ task[t].pc = "done"
    /\ \E name \in NameInputs, port \in PortInputs :
          task' = [task EXCEPT ![t] = [Idle EXCEPT !.op = "Peer::new",
                                                   !.msg = Some(<<name, port>>),
                                                   !.peer = Some(Peer_new(name, port))]]
    /\ UNCHANGED <<engineVars, peerVars, calls>>

NextNew == \E t \in Tasks : PeerNew(t)

SpecNew == Init /\ [][NextNew]_vars

\* Ipv4Addr::is_loopback (127.0.0.0/8) and is_multicast (224.0.0.0/4)
is_loopback(ip) == ip[1] = 127

is_multicast(ip) == ip[1] \in 224..239

PeerInfo(id, name, ip, port) == [id |-> id, name |-> name, ip |-> ip, port |-> port]

\* A validity check that does not trim the id
is_valid_untrimmed_id(info) ==
    /\ ~is_empty(info.id)
    /\ ~is_empty(trim(info.name))
    /\ Len(info.name) <= NameLimit
    /\ info.port > 0
    /\ ~is_loopback(info.ip)
    /\ ~is_multicast(info.ip)

\* PeerInfo::is_valid
is_valid(info) ==
    /\ ~is_empty(trim(info.id))
    /\ ~is_empty(trim(info.name))
    /\ Len(info.name) <= NameLimit
    /\ info.port > 0
    /\ ~is_loopback(info.ip)
    /\ ~is_multicast(info.ip)

\* HashMap::remove
MapRemove(map, k) == [x \in (DOMAIN map) \ {k} |-> map[x]]

\* the inputs of the registry: ids, names, addresses and ports a message can carry
LongName == [i \in 1..(NameLimit + 1) |-> "x"]
IdStrings == {<<>>, <<" ">>, peer_id, <<"b">>, <<"c">>}
NameStrings == {<<>>, <<" ">>, <<"b">>, LongName}
IpAddrs == {<<127, 0, 0, 1>>, <<224, 0, 0, 251>>, <<192, 168, 1, 7>>}
Ports == {0, 9000}

\* a record every check accepts
ValidInfo == PeerInfo(<<"b">>, <<"b">>, <<192, 168, 1, 7>>, 9000)

\* the records a Discovery message can carry: ValidInfo with one field replaced
PeerInfos ==
    {[ValidInfo EXCEPT !.id = id] : id \in IdStrings}
      \cup {[ValidInfo EXCEPT !.name = name] : name \in NameStrings}
      \cup {[ValidInfo EXCEPT !.ip = ip] : ip \in IpAddrs}
      \cup {[ValidInfo EXCEPT !.port = port] : port \in Ports}

\* an mDNS response: its A, PTR, TXT and SRV records, each present or not
TxtRecords == [peer_id : {None} \cup {Some(id) : id \in IdStrings}, app_tag : BOOLEAN]

\* the responses the observe loop can see: every PTR with every TXT from a
\* good endpoint, and a good instance with every A and every SRV
MdnsResponses ==
    [addr : {Some(ValidInfo.ip)},
     ptr : {None} \cup {Some(name) : name \in NameStrings},
     txt : {None} \cup {Some(x) : x \in TxtRecords},
     srv : {Some(ValidInfo.port)}]
      \cup [addr : {None} \cup {Some(ip) : ip \in IpAddrs},
            ptr : {Some(ValidInfo.name)},
            txt : {Some([peer_id |-> Some(<<"c">>), app_tag |-> TRUE])},
            srv : {None} \cup {Some(port) : port \in Ports}]

----------------------------------------------------------------------------
(* The registry: Discovery and Exit messages, the mDNS observe loop *)

\* what the intake did with a registry message of that kind
Intake(kind, outcome) == [kind |-> kind, outcome |-> outcome]

\* A Discovery handler without the check for the local id
HandleDiscovery_accepts_self ==
    /\ received < MaxReceived
    /\ \E peer_info \in PeerInfos :
          IF ~is_valid(peer_info)
          THEN UNCHANGED <<peers, intake>>
          ELSE /\ peers_lock = NoTask
               /\ peers' = MapInsert(peers, peer_info.id, peer_info)
               /\ UNCHANGED intake
    /\ received' = received + 1
    /\ UNCHANGED <<engineVars, network, peers_lock, known_keys, display, discovery_sent, task, calls>>

\* the Discovery arm of handle_tcp_connection, and handle_discovery, on a
\* message that carries one of infos
HandleDiscoveryOf(infos) ==
    /\ received < MaxReceived
    /\ \E peer_info \in infos :
          IF peer_info.id = peer_id
          THEN UNCHANGED peers /\ intake' = Some(Intake("Discovery", "self"))
          ELSE IF ~is_valid(peer_info)
               THEN UNCHANGED <<peers, intake>>
               ELSE /\ peers_lock = NoTask
                    /\ peers' = MapInsert(peers, peer_info.id, peer_info)
                    /\ UNCHANGED intake
    /\ received' = received + 1
    /\ UNCHANGED <<engineVars, network, peers_lock, known_keys, display, discovery_sent, task, calls>>

HandleDiscovery == HandleDiscoveryOf(PeerInfos)

\* An Exit handler that clears the registry
HandleExit_clears ==
    /\ peers_lock = NoTask
    /\ \E id \in IdStrings :
          /\ peers' = IF id \in DOMAIN peers THEN EmptyMap ELSE peers
          /\ intake' = Some(Intake("Exit", IF id \in DOMAIN peers THEN "removed" ELSE "unknown"))
    /\ UNCHANGED <<engineVars, network, peers_lock, known_keys, display, discovery_sent, received,
                   task, calls>>

\* the Exit arm of handle_tcp_connection, and handle_exit
HandleExit ==
    /\ peers_lock = NoTask
    /\ \E id \in IdStrings :
          /\ peers' = MapRemove(peers, id)
          /\ intake' = Some(Intake("Exit", IF id \in DOMAIN peers THEN "removed" ELSE "unknown"))
    /\ UNCHANGED <<engineVars, network, peers_lock, known_keys, display, discovery_sent, received,
                   task, calls>>

\* start_mdns: the name, id and port the observe loop reads from a response
mdns_peer_name(response) ==
    IF response.ptr = None THEN <<"u", "n", "k", "n", "o", "w", "n">> ELSE response.ptr[1]

mdns_peer_id(response) ==
    IF /\ response.txt # None
       /\ response.txt[1].app_tag
       /\ response.txt[1].peer_id # None
    THEN response.txt[1].peer_id[1]
    ELSE mdns_peer_name(response)

mdns_peer_port(response) == IF response.srv = None THEN LocalPort ELSE response.srv[1]

\* the response passes the checks before `if peer_id == peer.peer_id` and
\* carries the local id
mdns_is_self(response) ==
    /\ ~(is_empty(mdns_peer_id(response)) \/ mdns_peer_port(response) = 0)
    /\ ~(is_empty(trim(mdns_peer_name(response)))
           \/ Len(mdns_peer_name(response)) > NameLimit)
    /\ response.addr # None
    /\ mdns_peer_id(response) = peer_id

\* the checks of the observe loop before it takes the registry lock
mdns_accepts(response) ==
    /\ ~(is_empty(mdns_peer_id(response)) \/ mdns_peer_port(response) = 0)
    /\ ~(is_empty(trim(mdns_peer_name(response)))
           \/ Len(mdns_peer_name(response)) > NameLimit)
    /\ response.addr # None
    /\ mdns_peer_id(response) # peer_id
    /\ ~(is_loopback(response.addr[1]) \/ is_multicast(response.addr[1]))
    /\ is_valid(PeerInfo(mdns_peer_id(response), mdns_peer_name(response),
                         response.addr[1], mdns_peer_port(response)))

\* An observe loop that sends Discovery for every accepted response
MdnsObserve_always_sends(response) ==
    /\ received < MaxReceived
    /\ IF ~mdns_accepts(response)
       THEN /\ UNCHANGED <<peers, discovery_sent>>
            /\ intake' = IF mdns_is_self(response)
                          THEN Some(Intake("mDNS", "self")) ELSE intake
       ELSE LET id == mdns_peer_id(response)
                peer_info == PeerInfo(id, mdns_peer_name(response), response.addr[1],
                                      mdns_peer_port(response))
                my_info == PeerInfo(peer_id, LocalName, response.addr[1], LocalPort)
            IN  /\ peers_lock = NoTask
                /\ IF TRUE
                   THEN IF ~is_valid(my_info)
                        THEN UNCHANGED <<peers, discovery_sent, intake>>
                        ELSE /\ UNCHANGED intake
                             /\ discovery_sent' =
                                   MapInsert(discovery_sent, id,
                                             (IF id \in DOMAIN discovery_sent
                                              THEN discovery_sent[id] ELSE 0) + 1)
                             /\ peers' = MapInsert(peers, id, peer_info)
                   ELSE /\ peers' = MapInsert(peers, id, peer_info)
                        /\ UNCHANGED <<discovery_sent, intake>>
    /\ received' = received + 1
    /\ UNCHANGED <<engineVars, network, peers_lock, known_keys, display, task, calls>>

\* one iteration of the observe loop of start_mdns, on one response
MdnsObserve(response) ==
    /\ received < MaxReceived
    /\ IF ~mdns_accepts(response)
       THEN /\ UNCHANGED <<peers, discovery_sent>>
            /\ intake' = IF mdns_is_self(response)
                          THEN Some(Intake("mDNS", "self")) ELSE intake
       ELSE LET id == mdns_peer_id(response)
                peer_info == PeerInfo(id, mdns_peer_name(response), response.addr[1],
                                      mdns_peer_port(response))
                my_info == PeerInfo(peer_id, LocalName, response.addr[1], LocalPort)
            IN  /\ peers_lock = NoTask
                /\ IF id \notin DOMAIN peers
                   THEN IF ~is_valid(my_info)
                        THEN UNCHANGED <<peers, discovery_sent, intake>>
                        ELSE /\ UNCHANGED intake
                             /\ discovery_sent' =
                                   MapInsert(discovery_sent, id,
                                             (IF id \in DOMAIN discovery_sent
                                              THEN discovery_sent[id] ELSE 0) + 1)
                             /\ peers' = MapInsert(peers, id, peer_info)
                   ELSE /\ peers' = MapInsert(peers, id, peer_info)
                        /\ UNCHANGED <<discovery_sent, intake>>
    /\ received' = received + 1
    /\ UNCHANGED <<engineVars, network, peers_lock, known_keys, display, task, calls>>

MdnsResponse == \E response \in MdnsResponses : MdnsObserve(response)

RegistryStep == HandleDiscovery \/ HandleExit \/ MdnsResponse

----------------------------------------------------------------------------
(* The fan-out of the broadcast functions: the registry guard taken by
   `let peers = peer.peers.lock().await` lives until the function returns *)

\* what a fan-out wrote: message m to registry entry id, the write succeeded or not
Written(id, m, ok) == [to |-> id, msg |-> m, ok |-> ok]

FanOutLock(t, o, from, to) ==
    /\ At(t, o, from)
    /\ peers_lock = NoTask
    /\ IF DOMAIN peers = {}
       THEN Return(t, "Ok") /\ UNCHANGED peers_lock
       ELSE /\ peers_lock' = t
            /\ task' = [task EXCEPT ![t].pc = to, ![t].todo = DOMAIN peers,
                                    ![t].successful_sends = 0]
            /\ UNCHANGED calls

\* the outcomes of connect and write_all towards one peer: messages ms are
\* tried in order until one write succeeds; n = 0 is a refused connection
SendOutcomes(id, ms) ==
    {<<{}, 0>>}
      \cup {<<{Written(id, ms[i], FALSE) : i \in 1..(n - 1)} \cup {Written(id, ms[n], TRUE)}, 1>> :
               n \in 1..Len(ms)}
      \cup {<<{Written(id, ms[i], FALSE) : i \in 1..Len(ms)}, 0>>}

\* A fan-out that returns the error of the first recipient that fails
FanOutSend_aborts(t, o, at, ms) ==
    /\ At(t, o, at)
    /\ \E id \in task[t].todo :
       \E outcome \in (IF is_valid(peers[id]) THEN SendOutcomes(id, ms) ELSE {<<{}, 0>>}) :
          LET cur == [task[t] EXCEPT !.todo = @ \ {id},
                                     !.out = @ \cup outcome[1],
                                     !.successful_sends = @ + outcome[2]]
              failed == is_valid(peers[id]) /\ outcome[2] = 0
          IN  /\ task' = [task EXCEPT ![t] = IF failed THEN Returned(cur, "Err")
                                             ELSE IF cur.todo = {} THEN Returned(cur, "Ok")
                                             ELSE cur]
              /\ peers_lock' = IF failed \/ cur.todo = {} THEN NoTask ELSE peers_lock
    /\ UNCHANGED calls

\* one iteration of `for peer_info in peers.values()`; after the last one the
\* function returns Ok and the guard is dropped
FanOutSend(t, o, at, ms) ==
    /\ At(t, o, at)
    /\ \E id \in task[t].todo :
       \E outcome \in (IF is_valid(peers[id]) THEN SendOutcomes(id, ms) ELSE {<<{}, 0>>}) :
          LET cur == [task[t] EXCEPT !.todo = @ \ {id},
                                     !.out = @ \cup outcome[1],
                                     !.successful_sends = @ + outcome[2]]
          IN  /\ task' = [task EXCEPT ![t] = IF cur.todo = {} THEN Returned(cur, "Ok") ELSE cur]
              /\ peers_lock' = IF cur.todo = {} THEN NoTask ELSE peers_lock
    /\ UNCHANGED calls

----------------------------------------------------------------------------
(* Peer::propose_secure_upgrade and broadcast_upgrade_proposal *)

\* a rule that asks for one approval more than there are peers
required_approvals_beyond_total(peers_count) == peers_count + 2

\* let required_approvals = (peers_count / 2) + 1;
required_approvals(peers_count) == (peers_count \div 2) + 1

StartProposeSecureUpgrade(t) ==
    /\ \E d \in Descriptions :
          Invoke(t, PeerCall("propose_secure_upgrade", "psu_peers", Some(d)))
    /\ UNCHANGED <<engineVars, peerVars>>

\* self.peers.lock().await.len(), then the call of create_proposal
PsuPeers(t) ==
    /\ At(t, "propose_secure_upgrade", "psu_peers")
    /\ peers_lock = NoTask
    /\ \E id \in FreshIds :
          LET peers_count == Cardinality(DOMAIN peers)
          IN  task' = [task EXCEPT ![t].op = "create_proposal",
                                   ![t].caller = "propose_secure_upgrade",
                                   ![t].pc = "cp_proposals",
                                   ![t].peers_count = peers_count,
                                   ![t].proposal_id = id,
                                   ![t].proposal =
                                       Some(UpgradeProposal(id, task[t].msg[1],
                                                            required_approvals(peers_count),
                                                            peers_count + 1))]
    /\ UNCHANGED <<engineVars, peerVars, calls>>

\* peer.threshold_manager.get_proposal(proposal_id).await.ok_or(..)?
BupProposal(t) ==
    /\ At(t, "propose_secure_upgrade", "bup_proposal")
    /\ IF get_proposal(task[t].proposal_id) = None
       THEN Return(t, "Err")
       ELSE /\ task' = [task EXCEPT ![t].pc = "bup_lock",
                                    ![t].msg = Some([variant |-> "UpgradeRequest",
                                                     body |-> get_proposal(task[t].proposal_id)[1]])]
            /\ UNCHANGED calls
    /\ UNCHANGED <<engineVars, peerVars>>

BupLock(t) ==
    /\ FanOutLock(t, "propose_secure_upgrade", "bup_lock", "bup_send")
    /\ UNCHANGED <<engineVars, peers, known_keys, display, discovery_sent, received, intake, network>>

BupSend(t) ==
    /\ FanOutSend(t, "propose_secure_upgrade", "bup_send", <<task[t].msg[1]>>)
    /\ UNCHANGED <<engineVars, peers, known_keys, display, discovery_sent, received, intake, network>>

\* create_proposal as called by propose_secure_upgrade
CreateProposalStep(t) ==
    (CpProposals(t) \/ CpVotes(t) \/ CpPartial(t) \/ CpStates(t)) /\ UNCHANGED peerVars

ProposeStep(t) ==
    \/ StartProposeSecureUpgrade(t) \/ PsuPeers(t) \/ CreateProposalStep(t)
    \/ BupProposal(t) \/ BupLock(t) \/ BupSend(t)

----------------------------------------------------------------------------
(* Peer::vote_on_proposal and broadcast_proposal_vote *)

StartVoteOnProposal(t) ==
    /\ \E id \in NameableIds, approved \in BOOLEAN :
          Invoke(t, [Call("cast_vote", "cv_state", id, None,
                          Some(UpgradeVote(id, peer_id, approved)))
                       EXCEPT !.caller = "vote_on_proposal"])
    /\ UNCHANGED <<engineVars, peerVars>>

\* votes.iter().find(|v| v.voter_id == peer.peer_id).ok_or(..)?
BpvVotes(t) ==
    /\ At(t, "vote_on_proposal", "bpv_votes")
    /\ LET existing == get_proposal_votes(task[t].proposal_id)
           mine == {i \in 1..Len(existing) : existing[i].voter_id = peer_id}
       IN  IF mine = {}
           THEN Return(t, "Err")
           ELSE /\ task' = [task EXCEPT ![t].pc = "bpv_lock",
                                        ![t].msg =
                                            Some([variant |-> "UpgradeVote",
                                                  body |-> existing[CHOOSE i \in mine :
                                                                \A j \in mine : i <= j]])]
                /\ UNCHANGED calls
    /\ UNCHANGED <<engineVars, peerVars>>

BpvLock(t) ==
    /\ FanOutLock(t, "vote_on_proposal", "bpv_lock", "bpv_send")
    /\ UNCHANGED <<engineVars, peers, known_keys, display, discovery_sent, received, intake, network>>

BpvSend(t) ==
    /\ FanOutSend(t, "vote_on_proposal", "bpv_send", <<task[t].msg[1]>>)
    /\ UNCHANGED <<engineVars, peers, known_keys, display, discovery_sent, received, intake, network>>

\* cast_vote as called by vote_on_proposal
CastVoteStep(t) ==
    (CvState(t) \/ CvVoted(t) \/ CvPush(t) \/ CtProposal(t) \/ CtVotes(t) \/ CtState(t)
       \/ CtFlag(t)) /\ UNCHANGED peerVars

VoteStep(t) ==
    \/ StartVoteOnProposal(t) \/ CastVoteStep(t) \/ BpvVotes(t) \/ BpvLock(t) \/ BpvSend(t)

----------------------------------------------------------------------------
(* CryptoManager: keys, signatures, sign_message and verify_message.  A
   signing key is named by a string; a signature records the key and the
   text it was made over, and verifies under that key and that text only *)

KeyLength == 32          \* bytes of a verifying key
SignatureLength == 64    \* bytes of a signature

\* CryptoManager.signing_key of the local peer
LocalKey == "ka"

PublicKeyBytes(k) == [len |-> KeyLength, key |-> k]

\* 32 bytes that are not the encoding of a point of the curve
NotAPoint == "not a point"

\* <[u8; 32]>::try_from, then VerifyingKey::from_bytes: the key, or None for
\* Err(InvalidPublicKey)
from_bytes(public_key) ==
    IF public_key.len # KeyLength \/ public_key.key = NotAPoint
    THEN None
    ELSE Some(public_key.key)

SignatureBytes(k, text) == [len |-> SignatureLength, key |-> k, text |-> text]

Digits == <<"0", "1", "2", "3", "4", "5", "6", "7", "8", "9">>

\* u64::to_string
RECURSIVE to_string(_)
to_string(n) ==
    IF n < 10 THEN <<Digits[n + 1]>> ELSE to_string(n \div 10) \o <<Digits[(n % 10) + 1]>>

\* format!("{message}:{timestamp}")
message_to_sign(message, timestamp) == message \o <<":">> \o to_string(timestamp)

SignedMessage(message, signature, public_key, signer_id, signer_name, timestamp) ==
    [message |-> message, signature |-> signature, public_key |-> public_key,
     signer_id |-> signer_id, signer_name |-> signer_name, timestamp |-> timestamp]

Message(from_id, from_name, content, timestamp, signature, public_key) ==
    [from_id |-> from_id, from_name |-> from_name, content |-> content,
     timestamp |-> timestamp, signature |-> signature, public_key |-> public_key]

sign_message(message, timestamp) ==
    SignedMessage(message, SignatureBytes(LocalKey, message_to_sign(message, timestamp)),
                  PublicKeyBytes(LocalKey), peer_id, LocalName, timestamp)

\* A signature check that compares the key and not the signed text
verify_key_only(key, text, signature) == signature.key = key

\* verifying_key.verify(message_to_verify.as_bytes(), &signature).is_ok()
verify(key, text, signature) == signature.key = key /\ signature.text = text

\* verify_message once the verifying key is resolved: the line the handler publishes
verify_outcome(key, signed_msg) ==
    IF signed_msg.signature.len # SignatureLength
    THEN "verification failed"
    ELSE IF verify(key, message_to_sign(signed_msg.message, signed_msg.timestamp),
                   signed_msg.signature)
         THEN "verified"
         ELSE "INVALID SIGNATURE"

\* the inputs of the chat functions
Contents == {<<"h", "i">>}
Timestamps == {7}

RemoteSignatures ==
    {SignatureBytes("kb", message_to_sign(content, timestamp)) :
        content \in Contents, timestamp \in Timestamps}
      \cup {[len |-> SignatureLength - 1, key |-> "kb", text |-> <<>>]}

RemoteKeys == {PublicKeyBytes("kb"), PublicKeyBytes("kc"), [len |-> KeyLength - 1, key |-> "kb"]}

\* the Chat messages a remote peer can send
RemoteMessages ==
    {Message(<<"b">>, <<"b">>, content, timestamp, signature, public_key) :
        content \in Contents, timestamp \in Timestamps,
        signature \in {None} \cup {Some(x) : x \in RemoteSignatures},
        public_key \in {None} \cup {Some(k) : k \in RemoteKeys}}

----------------------------------------------------------------------------
(* broadcast_message, broadcast_signed_message, broadcast_unsigned_message *)

NetworkMessage(variant, body) == [variant |-> variant, body |-> body]

\* the Chat form broadcast_message builds: the signature and the key embedded
regular_message(signed_message) ==
    Message(peer_id, LocalName, signed_message.message, signed_message.timestamp,
            Some(signed_message.signature), Some(signed_message.public_key))

\* the Chat form broadcast_unsigned_message builds
unsigned_message(content, timestamp) ==
    Message(peer_id, LocalName, content, timestamp, None, None)

StartBroadcastMessage(t) ==
    /\ \E content \in Contents :
          Invoke(t, PeerCall("broadcast_message", "bm_flag", Some(content)))
    /\ UNCHANGED <<engineVars, peerVars>>

\* A flag check that takes the compatibility path in both cases
BmFlag_always_compatible(t) ==
    /\ At(t, "broadcast_message", "bm_flag")
    /\ \E timestamp \in Timestamps :
          task' = [task EXCEPT ![t].pc = "bm_lock",
                               ![t].msg = Some(sign_message(task[t].msg[1], timestamp))]
    /\ UNCHANGED <<engineVars, peerVars, calls>>

\* if peer.threshold_manager.is_secure_only_enabled().await { return broadcast_signed_message }
BmFlag(t) ==
    /\ At(t, "broadcast_message", "bm_flag")
    /\ \E timestamp \in Timestamps :
          task' = [task EXCEPT ![t].pc = IF is_secure_only_enabled THEN "bsm_lock" ELSE "bm_lock",
                               ![t].msg = Some(sign_message(task[t].msg[1], timestamp))]
    /\ UNCHANGED <<engineVars, peerVars, calls>>

BmLock(t) ==
    /\ FanOutLock(t, "broadcast_message", "bm_lock", "bm_send")
    /\ UNCHANGED <<engineVars, peers, known_keys, display, discovery_sent, received, intake, network>>

\* the signed form first, the Chat form if that write fails
BmSend(t) ==
    /\ FanOutSend(t, "broadcast_message", "bm_send",
                  <<NetworkMessage("SignedChat", task[t].msg[1]),
                    NetworkMessage("Chat", regular_message(task[t].msg[1]))>>)
    /\ UNCHANGED <<engineVars, peers, known_keys, display, discovery_sent, received, intake, network>>

BsmLock(t) ==
    /\ FanOutLock(t, "broadcast_message", "bsm_lock", "bsm_send")
    /\ UNCHANGED <<engineVars, peers, known_keys, display, discovery_sent, received, intake, network>>

BsmSend(t) ==
    /\ FanOutSend(t, "broadcast_message", "bsm_send",
                  <<NetworkMessage("SignedChat", task[t].msg[1])>>)
    /\ UNCHANGED <<engineVars, peers, known_keys, display, discovery_sent, received, intake, network>>

StartBroadcastUnsignedMessage(t) ==
    /\ \E content \in Contents :
          Invoke(t, PeerCall("broadcast_unsigned_message", "bum_flag", Some(content)))
    /\ UNCHANGED <<engineVars, peerVars>>

\* A flag check that refuses when the flag is false
BumFlag_inverted(t) ==
    /\ At(t, "broadcast_unsigned_message", "bum_flag")
    /\ IF ~is_secure_only_enabled
       THEN Return(t, "Err")
       ELSE \E timestamp \in Timestamps :
               /\ task' = [task EXCEPT ![t].pc = "bum_lock",
                                       ![t].msg = Some(unsigned_message(task[t].msg[1],
                                                                        timestamp))]
               /\ UNCHANGED calls
    /\ UNCHANGED <<engineVars, peerVars>>

\* if peer.threshold_manager.is_secure_only_enabled().await { return Err(..) }
BumFlag(t) ==
    /\ At(t, "broadcast_unsigned_message", "bum_flag")
    /\ IF is_secure_only_enabled
       THEN Return(t, "Err")
       ELSE \E timestamp \in Timestamps :
               /\ task' = [task EXCEPT ![t].pc = "bum_lock",
                                       ![t].msg = Some(unsigned_message(task[t].msg[1],
                                                                        timestamp))]
               /\ UNCHANGED calls
    /\ UNCHANGED <<engineVars, peerVars>>

BumLock(t) ==
    /\ FanOutLock(t, "broadcast_unsigned_message", "bum_lock", "bum_send")
    /\ UNCHANGED <<engineVars, peers, known_keys, display, discovery_sent, received, intake, network>>

BumSend(t) ==
    /\ FanOutSend(t, "broadcast_unsigned_message", "bum_send",
                  <<NetworkMessage("Chat", task[t].msg[1])>>)
    /\ UNCHANGED <<engineVars, peers, known_keys, display, discovery_sent, received, intake, network>>

BroadcastStep(t) ==
    \/ StartBroadcastMessage(t) \/ BmFlag(t) \/ BmLock(t) \/ BmSend(t)
    \/ BsmLock(t) \/ BsmSend(t)
    \/ StartBroadcastUnsignedMessage(t) \/ BumFlag(t) \/ BumLock(t) \/ BumSend(t)

----------------------------------------------------------------------------
(* The Chat arm of handle_tcp_connection, and handle_chat_message *)

\* message_sender.send(display_msg)
Publish(kind, from_name, content) ==
    display' = Append(display, [kind |-> kind, name |-> from_name, content |-> content])

StartHandleChatMessage(t) ==
    /\ \E message \in RemoteMessages :
          Invoke(t, PeerCall("handle_chat_message", "hcm_dispatch", Some(message)))
    /\ UNCHANGED <<engineVars, peerVars>>

\* an unsigned message is published at once; a signed one is verified, first
\* against the key known_keys holds for the sender
HcmDispatch(t) ==
    /\ At(t, "handle_chat_message", "hcm_dispatch")
    /\ LET message == task[t].msg[1]
       IN  IF message.signature # None /\ message.public_key # None
           THEN IF message.from_id \in DOMAIN known_keys
                THEN /\ Publish(verify_outcome(known_keys[message.from_id],
                                    SignedMessage(message.content, message.signature[1],
                                                  message.public_key[1], message.from_id,
                                                  message.from_name, message.timestamp)),
                                message.from_name, message.content)
                     /\ Return(t, "Ok")
                ELSE IF from_bytes(message.public_key[1]) = None
                     THEN /\ Publish("verification failed", message.from_name, message.content)
                          /\ Return(t, "Ok")
                     ELSE Goto(t, "vm_cache") /\ UNCHANGED display
           ELSE /\ Publish("unsigned", message.from_name, message.content)
                /\ Return(t, "Ok")
    /\ UNCHANGED <<engineVars, peers, peers_lock, known_keys, discovery_sent, received, intake, network>>

\* verify_message caches the attached key, then checks the signature with it
VmCache(t) ==
    /\ At(t, "handle_chat_message", "vm_cache")
    /\ LET message == task[t].msg[1]
       IN  /\ known_keys' = MapInsert(known_keys, message.from_id,
                                       from_bytes(message.public_key[1])[1])
           /\ Publish(verify_outcome(from_bytes(message.public_key[1])[1],
                          SignedMessage(message.content, message.signature[1],
                                        message.public_key[1], message.from_id,
                                        message.from_name, message.timestamp)),
                      message.from_name, message.content)
    /\ Return(t, "Ok")
    /\ UNCHANGED <<engineVars, peers, peers_lock, discovery_sent, received, intake, network>>

ChatStep(t) == StartHandleChatMessage(t) \/ HcmDispatch(t) \/ VmCache(t)

----------------------------------------------------------------------------
(* The peer: registry, proposals and votes, broadcasts and inbound chat *)

NextRegistry == RegistryStep \/ \E t \in Tasks : ProposeStep(t)

NextSend ==
    \/ HandleDiscovery
    \/ \E t \in Tasks : ProposeStep(t) \/ VoteStep(t) \/ BroadcastStep(t)

NextChat ==
    \/ HandleDiscovery
    \/ \E t \in Tasks : ProposeStep(t) \/ VoteStep(t) \/ ChatStep(t)

\* the registry alone: the observe loop and the Discovery and Exit messages
SpecObserve == Init /\ [][RegistryStep]_vars

\* the registry and propose_secure_upgrade
SpecRegistry == Init /\ [][NextRegistry]_vars

\* the sending side: a peer that discovers peers, proposes, votes and broadcasts chat
SpecSend == Init /\ [][NextSend]_vars

\* the receiving side: a peer that discovers peers, proposes, votes and handles
\* inbound chat
SpecChat == Init /\ [][NextChat]_vars

----------------------------------------------------------------------------
(* CryptoManager::sign_message of a remote signer and
   CryptoManager::verify_message of this peer *)

\* the CryptoManager of a remote peer: its signing key and its identity
RemoteManager == [signing_key |-> "kb", peer_id |-> <<"b">>, name |-> <<"b">>]

\* sign_message as run by that manager
sign_message_of(manager, message, timestamp) ==
    SignedMessage(message,
                  SignatureBytes(manager.signing_key, message_to_sign(message, timestamp)),
                  PublicKeyBytes(manager.signing_key), manager.peer_id, manager.name,
                  timestamp)

\* contents with and without the separator of the signed text, and timestamps
\* of one and two digits
SignedContents == {<<"h">>, <<"h", ":", "1">>}
SignedTimestamps == {7, 17}

\* what sign_message returns
Signed ==
    {sign_message_of(RemoteManager, c, ts) : c \in SignedContents, ts \in SignedTimestamps}

\* a signature of another key over the same text, and one that is too short
OtherSignatures(m) ==
    {SignatureBytes("kc", m.signature.text),
     [len |-> SignatureLength - 1, key |-> m.signature.key, text |-> m.signature.text]}

\* another key, one that is too short, and one of 32 bytes that does not parse
OtherKeys(m) ==
    {PublicKeyBytes("kc"), [len |-> KeyLength - 1, key |-> m.public_key.key],
     PublicKeyBytes(NotAPoint)}

\* a signed message with exactly one of its fields replaced
Mutated(m, field) ==
    CASE field = "message" ->
           {[m EXCEPT !.message = c] : c \in SignedContents \ {m.message}}
      [] field = "timestamp" ->
           {[m EXCEPT !.timestamp = ts] : ts \in SignedTimestamps \ {m.timestamp}}
      [] field = "signature" -> {[m EXCEPT !.signature = x] : x \in OtherSignatures(m)}
      [] field = "public_key" -> {[m EXCEPT !.public_key = k] : k \in OtherKeys(m)}

MutableFields == {"message", "timestamp", "signature", "public_key"}

\* a signed message with a signature and a key that are both too short
Malformed(m) ==
    [m EXCEPT !.signature = [len |-> SignatureLength - 1, key |-> m.signature.key,
                             text |-> m.signature.text],
              !.public_key = [len |-> KeyLength - 1, key |-> m.public_key.key]]

\* the messages handed to verify_message
VerifyInputs ==
    Signed \cup UNION {Mutated(m, f) : m \in Signed, f \in MutableFields}
           \cup {Malformed(m) : m \in Signed}

\* the Result of verify_message once the verifying key is resolved
verify_result(key, signed_msg) ==
    IF signed_msg.signature.len # SignatureLength
    THEN "Err(InvalidSignature)"
    ELSE IF verify(key, message_to_sign(signed_msg.message, signed_msg.timestamp),
                   signed_msg.signature)
         THEN "Ok(true)"
         ELSE "Ok(false)"

\* verify_message returns r to its caller, which still holds signed_msg:
\* _verify_and_display goes on to its match on r
VerifyReturn(t, r) ==
    /\ task' = IF task[t].caller = "handle_signed_chat"
               THEN [task EXCEPT ![t].op = "handle_signed_chat", ![t].caller = "",
                                 ![t].pc = "vd_display", ![t].result = r]
               ELSE [task EXCEPT ![t].pc = "done", ![t].result = r]
    /\ UNCHANGED calls

VerifyMessageOf(t, inputs) ==
    /\ \E signed_msg \in inputs :
          Invoke(t, PeerCall("verify_message", "verify_lookup", Some(signed_msg)))
    /\ UNCHANGED <<engineVars, peerVars>>

StartVerifyMessage(t) == VerifyMessageOf(t, VerifyInputs)

\* A lookup that takes the attached key of an unknown signer without parsing it
VerifyLookup_unparsed(t) ==
    /\ At(t, "verify_message", "verify_lookup")
    /\ LET signed_msg == task[t].msg[1]
       IN  IF signed_msg.signer_id \in DOMAIN known_keys
           THEN VerifyReturn(t, verify_result(known_keys[signed_msg.signer_id], signed_msg))
           ELSE Goto(t, "verify_insert")
    /\ UNCHANGED <<engineVars, peerVars>>

\* the read guard: a key cached for signer_id is the verifying key; otherwise
\* the attached key is parsed
VerifyLookup(t) ==
    /\ At(t, "verify_message", "verify_lookup")
    /\ LET signed_msg == task[t].msg[1]
       IN  IF signed_msg.signer_id \in DOMAIN known_keys
           THEN VerifyReturn(t, verify_result(known_keys[signed_msg.signer_id], signed_msg))
           ELSE IF from_bytes(signed_msg.public_key) = None
                THEN VerifyReturn(t, "Err(InvalidPublicKey)")
                ELSE Goto(t, "verify_insert")
    /\ UNCHANGED <<engineVars, peerVars>>

\* An insert that caches the attached key only when the signature verified
VerifyInsert_after_check(t) ==
    /\ At(t, "verify_message", "verify_insert")
    /\ LET signed_msg == task[t].msg[1]
           r == verify_result(signed_msg.public_key.key, signed_msg)
       IN  /\ known_keys' = IF r = "Ok(true)"
                            THEN MapInsert(known_keys, signed_msg.signer_id,
                                           signed_msg.public_key.key)
                            ELSE known_keys
           /\ VerifyReturn(t, r)
    /\ UNCHANGED <<engineVars, peers, peers_lock, display, discovery_sent, received, intake,
                   network>>

\* the write guard: the attached key is cached, then the signature is checked
VerifyInsert(t) ==
    /\ At(t, "verify_message", "verify_insert")
    /\ LET signed_msg == task[t].msg[1]
       IN  /\ known_keys' = MapInsert(known_keys, signed_msg.signer_id, signed_msg.public_key.key)
           /\ VerifyReturn(t, verify_result(signed_msg.public_key.key, signed_msg))
    /\ UNCHANGED <<engineVars, peers, peers_lock, display, discovery_sent, received, intake,
                   network>>

VerifyStep(t) == StartVerifyMessage(t) \/ VerifyLookup(t) \/ VerifyInsert(t)

NextVerify == \E t \in Tasks : VerifyStep(t)

\* verify_message called from concurrent tasks on the messages a signer
\* produced and on altered copies of them
SpecVerify == Init /\ [][NextVerify]_vars

----------------------------------------------------------------------------
(* CryptoManager::add_known_peer, and the operations that take the locks of
   the shared tables, called from concurrent tasks *)

\* the key is parsed, then inserted under the write guard
AkpInsert(t) ==
    /\ At(t, "add_known_peer", "akp_insert")
    /\ LET key == from_bytes(task[t].msg[1].public_key)
       IN  IF key = None
           THEN Return(t, "Err(InvalidPublicKey)") /\ UNCHANGED known_keys
           ELSE /\ known_keys' = MapInsert(known_keys, task[t].msg[1].peer_id, key[1])
                /\ Return(t, "Ok")
    /\ UNCHANGED <<engineVars, peers, peers_lock, display, discovery_sent, received, intake,
                   network>>

\* one call of each operation of the engine that a message or the user
\* starts, of add_known_peer and of verify_message: a received proposal that
\* one approval decides, the local vote and a received vote that approve it,
\* and the key and a signed message of the remote signer
LockCalls ==
    {Call("insert_received_proposal", "irp_exists", id, Some(UpgradeProposal(id, d, 1, n)), None) :
        id \in ProposalIds, d \in Descriptions, n \in TotalPeers}
      \cup {Call("cast_vote", "cv_state", id, None, Some(UpgradeVote(id, peer_id, TRUE))) :
               id \in ProposalIds}
      \cup {Call("handle_received_vote", "hrv_existing", id, None,
                  Some(UpgradeVote(id, voter, TRUE))) :
               id \in ProposalIds, voter \in Voters \ {peer_id}}
      \cup {PeerCall("add_known_peer", "akp_insert",
                      Some([peer_id |-> RemoteManager.peer_id,
                            public_key |-> PublicKeyBytes(RemoteManager.signing_key)])),
            PeerCall("verify_message", "verify_lookup",
                     Some(sign_message_of(RemoteManager, <<"h">>, 7)))}

StartLockCall(t) ==
    /\ \E call \in LockCalls : Invoke(t, call)
    /\ UNCHANGED <<engineVars, peerVars>>

\* the steps of task t in the operations that lock the tables of the engine,
\* known_keys and the registry
LockStep(t) ==
    \/ StartLockCall(t)
    \/ ProposeStep(t)
    \/ (InsertBody(t) \/ VoteBody(t) \/ GetActiveProposalsStep(t)) /\ UNCHANGED peerVars
    \/ VerifyLookup(t) \/ VerifyInsert(t) \/ AkpInsert(t)

\* the registry learns of one peer, so that a fan-out has a recipient
NextLocks == HandleDiscoveryOf({ValidInfo}) \/ \E t \in Tasks : LockStep(t)

SpecLocks == Init /\ [][NextLocks]_vars

----------------------------------------------------------------------------
(* handle_signed_chat and _verify_and_display (handlers/chat.rs), and the
   inbound Chat and SignedChat messages of a peer *)

\* the SignedChat messages a remote peer can send
SignedChats ==
    {SignedMessage(content, signature, public_key, <<"b">>, <<"b">>, timestamp) :
        content \in Contents, timestamp \in Timestamps,
        signature \in RemoteSignatures, public_key \in RemoteKeys}

\* A match of _verify_and_display that shows a refused signature as verified
display_kind_lenient(result) ==
    CASE result \in {"Ok(true)", "Ok(false)"} -> "verified"
      [] OTHER -> "verification failed"

\* the arms of the match on the result of verify_message
display_kind(result) ==
    CASE result = "Ok(true)" -> "verified"
      [] result = "Ok(false)" -> "INVALID SIGNATURE"
      [] OTHER -> "verification failed"

\* handle_signed_chat calls _verify_and_display, which calls verify_message
StartHandleSignedChat(t) ==
    /\ \E signed_message \in SignedChats :
          Invoke(t, [PeerCall("verify_message", "verify_lookup", Some(signed_message))
                        EXCEPT !.caller = "handle_signed_chat"])
    /\ UNCHANGED <<engineVars, peerVars>>

\* the match on the result: one message_sender.send in every arm
VdDisplay(t) ==
    /\ At(t, "handle_signed_chat", "vd_display")
    /\ LET signed_message == task[t].msg[1]
       IN  Publish(display_kind(task[t].result), signed_message.signer_name,
                   signed_message.message)
    /\ Return(t, "Ok")
    /\ UNCHANGED <<engineVars, peers, peers_lock, known_keys, discovery_sent, received, intake,
                   network>>

SignedChatStep(t) ==
    StartHandleSignedChat(t) \/ VerifyLookup(t) \/ VerifyInsert(t) \/ VdDisplay(t)

NextInbound == \E t \in Tasks : ChatStep(t) \/ SignedChatStep(t)

\* Chat and SignedChat messages of one remote peer handled by concurrent tasks
SpecInbound == Init /\ [][NextInbound]_vars

----------------------------------------------------------------------------
(* The UpgradeRequest and UpgradeVote arms of handle_tcp_connection
   (handlers/upgrade.rs), fed by the broadcasts of a remote decision *)

RemoteVoters == {<<"b">>, <<"c">>}

\* A proposal reached its threshold at a remote peer: the proposer has
\* broadcast it (broadcast_upgrade_proposal) and every voter has broadcast its
\* vote (broadcast_proposal_vote), each message on a connection of its own
RemoteDecision ==
    /\ network = {}
    /\ \A t \in Tasks : task[t] = Idle
    /\ \E id \in ProposalIds, d \in Descriptions, m \in 0..MaxRequired, n \in TotalPeers,
          approving \in SUBSET RemoteVoters, rejecting \in SUBSET RemoteVoters :
          /\ approving \cap rejecting = {}
          /\ approving \cup rejecting # {}
          /\ Cardinality(approving) >= m
          /\ network' =
                {NetworkMessage("UpgradeRequest", UpgradeProposal(id, d, m, n))}
                  \cup {NetworkMessage("UpgradeVote", UpgradeVote(id, v, v \in approving)) :
                           v \in approving \cup rejecting}
    /\ UNCHANGED <<engineVars, peers, peers_lock, known_keys, display, discovery_sent,
                   received, intake, task, calls>>

\* the task of a connection reads an UpgradeRequest and calls
\* insert_received_proposal
StartHandleUpgradeRequest(t) ==
    /\ task[t].pc = "done"
    /\ \E m \in network :
          /\ m.variant = "UpgradeRequest"
          /\ network' = network \ {m}
          /\ task' = [task EXCEPT ![t] =
                         [Call("insert_received_proposal", "irp_exists", m.body.proposal_id,
                               Some(m.body), None)
                            EXCEPT !.caller = "handle_upgrade_request"]]
    /\ UNCHANGED <<engineVars, peers, peers_lock, known_keys, display, discovery_sent,
                   received, intake, calls>>

\* let _ = message_sender.send(display_msg);
HurDisplay(t) ==
    /\ At(t, "handle_upgrade_request", "hur_display")
    /\ Publish("UpgradeRequest", <<>>, task[t].proposal_id)
    /\ Return(t, "Ok")
    /\ UNCHANGED <<engineVars, peers, peers_lock, known_keys, discovery_sent, received,
                   intake, network>>

\* the task of a connection reads an UpgradeVote and calls handle_received_vote
StartHandleUpgradeVote(t) ==
    /\ task[t].pc = "done"
    /\ \E m \in network :
          /\ m.variant = "UpgradeVote"
          /\ network' = network \ {m}
          /\ task' = [task EXCEPT ![t] =
                         [Call("handle_received_vote", "hrv_existing", m.body.proposal_id,
                               None, Some(m.body))
                            EXCEPT !.caller = "handle_upgrade_vote"]]
    /\ UNCHANGED <<engineVars, peers, peers_lock, known_keys, display, discovery_sent,
                   received, intake, calls>>

HuvDisplay(t) ==
    /\ At(t, "handle_upgrade_vote", "huv_display")
    /\ Publish("UpgradeVote", task[t].vote[1].voter_id, task[t].proposal_id)
    /\ Return(t, "Ok")
    /\ UNCHANGED <<engineVars, peers, peers_lock, known_keys, discovery_sent, received,
                   intake, network>>

\* the steps of the tasks that serve the inbound connections
UpgradeStep(t) ==
    \/ StartHandleUpgradeRequest(t)
    \/ InsertBody(t) /\ UNCHANGED peerVars
    \/ HurDisplay(t)
    \/ StartHandleUpgradeVote(t)
    \/ (HrvExisting(t) \/ HrvPush(t) \/ CheckThresholdBody(t)) /\ UNCHANGED peerVars
    \/ HuvDisplay(t)

NextDelivery == RemoteDecision \/ \E t \in Tasks : UpgradeStep(t)

\* Every accepted connection is served by a task of its own (listener.rs:27-33)
\* that the runtime keeps polling, and the locks are granted in FIFO order, so
\* a task that can take its next step takes it
SpecDelivery == Init /\ [][NextDelivery]_vars /\ \A t \in Tasks : WF_vars(UpgradeStep(t))

----------------------------------------------------------------------------
(* handle_tcp_connection: the loop that reads a connection and dispatches
   what decodes.  A connection is the sequence of what its reads return; the
   arms that run in one step (unsigned Chat, Exit, Discovery) are dispatched
   here, the others are modelled by their own actions above *)

\* a read whose bytes are no NetworkMessage, and a read that fails
Undecodable == [variant |-> "undecodable", body |-> None]
ReadError == [variant |-> "io_error", body |-> None]

\* unsigned Chat messages of a remote peer
ChatOf(c) == NetworkMessage("Chat", Message(<<"b">>, <<"b">>, c, 7, None, None))

Hi == ChatOf(<<"h", "i">>)
Yo == ChatOf(<<"y", "o">>)
Joined == NetworkMessage("Discovery", ValidInfo)
Echo == NetworkMessage("Discovery", [ValidInfo EXCEPT !.id = peer_id])
Nameless == NetworkMessage("Discovery", [ValidInfo EXCEPT !.name = <<>>])
Left == NetworkMessage("Exit", ValidInfo.id)

\* the connections a remote peer opens: what the successive reads return,
\* until the read of 0 bytes that closes the connection
Streams ==
    {<<Hi>>, <<Undecodable>>, <<Undecodable, Hi, Yo>>, <<Yo, Undecodable, Hi>>,
     <<Undecodable, Undecodable, Hi>>, <<Joined, Undecodable, Left>>,
     <<Left, Undecodable, Joined>>, <<Undecodable, Echo, Hi>>, <<Undecodable, Nameless, Hi>>,
     <<Undecodable, ReadError, Hi>>}

\* start_tcp_listener spawns handle_tcp_connection for an accepted connection
AcceptConnection(t) ==
    /\ \E s \in Streams :
          Invoke(t, [Idle EXCEPT !.op = "handle_tcp_connection", !.pc = "tcp_read",
                                 !.stream = s])
    /\ UNCHANGED <<engineVars, peerVars>>

\* A loop that gives the connection up at a read that does not decode
TcpRead_decode_failure_ends(t) ==
    /\ At(t, "handle_tcp_connection", "tcp_read")
    /\ IF task[t].pos = Len(task[t].stream)
       THEN Return(t, "Ok")
       ELSE LET read == task[t].stream[task[t].pos + 1]
            IN  IF read = ReadError
                THEN Return(t, "Err")
                ELSE IF read = Undecodable
                     THEN Return(t, "Ok")
                     ELSE /\ task' = [task EXCEPT ![t].pos = @ + 1, ![t].msg = Some(read),
                                                  ![t].pc = "tcp_dispatch"]
                          /\ UNCHANGED calls
    /\ UNCHANGED <<engineVars, peerVars>>

\* stream.readable().await, try_read and serde_json::from_slice: Ok(0) breaks
\* the loop, an error returns it, bytes that do not decode are passed over
TcpRead(t) ==
    /\ At(t, "handle_tcp_connection", "tcp_read")
    /\ IF task[t].pos = Len(task[t].stream)
       THEN Return(t, "Ok")
       ELSE LET read == task[t].stream[task[t].pos + 1]
            IN  IF read = ReadError
                THEN Return(t, "Err")
                ELSE IF read = Undecodable
                     THEN task' = [task EXCEPT ![t].pos = @ + 1] /\ UNCHANGED calls
                     ELSE /\ task' = [task EXCEPT ![t].pos = @ + 1, ![t].msg = Some(read),
                                                  ![t].pc = "tcp_dispatch"]
                          /\ UNCHANGED calls
    /\ UNCHANGED <<engineVars, peerVars>>

\* the task has dispatched its message and reads on, or returns
Dispatched(t, returns) ==
    LET cur == [task[t] EXCEPT !.dispatched = Append(@, task[t].msg[1])]
    IN  /\ task' = [task EXCEPT ![t] = IF returns THEN Returned(cur, "Ok")
                                       ELSE [cur EXCEPT !.pc = "tcp_read", !.msg = None]]
        /\ UNCHANGED calls

\* match network_msg { .. }: the Chat arm without signature, the Exit arm and
\* the Discovery arm, which returns from the function on the local id and on
\* an invalid record
TcpDispatch(t) ==
    /\ At(t, "handle_tcp_connection", "tcp_dispatch")
    /\ LET network_msg == task[t].msg[1]
       IN  CASE network_msg.variant = "Chat" ->
                  /\ Publish("unsigned", network_msg.body.from_name, network_msg.body.content)
                  /\ Dispatched(t, FALSE)
                  /\ UNCHANGED <<peers, intake>>
             [] network_msg.variant = "Exit" ->
                  /\ peers_lock = NoTask
                  /\ peers' = MapRemove(peers, network_msg.body)
                  /\ intake' = Some(Intake("Exit", IF network_msg.body \in DOMAIN peers
                                                   THEN "removed" ELSE "unknown"))
                  /\ Dispatched(t, FALSE)
                  /\ UNCHANGED display
             [] network_msg.variant = "Discovery" ->
                  IF network_msg.body.id = peer_id
                  THEN /\ intake' = Some(Intake("Discovery", "self"))
                       /\ Dispatched(t, TRUE)
                       /\ UNCHANGED <<peers, display>>
                  ELSE IF ~is_valid(network_msg.body)
                       THEN Dispatched(t, TRUE) /\ UNCHANGED <<peers, display, intake>>
                       ELSE /\ peers_lock = NoTask
                            /\ peers' = MapInsert(peers, network_msg.body.id, network_msg.body)
                            /\ Dispatched(t, FALSE)
                            /\ UNCHANGED <<display, intake>>
    /\ UNCHANGED <<engineVars, peers_lock, known_keys, discovery_sent, received, network>>

ConnectionStep(t) == AcceptConnection(t) \/ TcpRead(t) \/ TcpDispatch(t)

NextConnection == \E t \in Tasks : ConnectionStep(t)

\* connections handled by concurrent tasks
SpecConnection == Init /\ [][NextConnection]_vars

----------------------------------------------------------------------------
(* Shutdown: the "/quit" arm of start_cli_handler, Peer::shutdown,
   handle_signals and broadcast_exit *)

\* std::process::exit has been called
Terminated == \E t \in Tasks : task[t].pc = "exited"

\* a call of broadcast_exit by the operation `by`
BroadcastExit(by) ==
    [PeerCall("broadcast_exit", "be_lock", Some(NetworkMessage("Exit", peer_id)))
        EXCEPT !.caller = by]

\* the user enters /quit: the arm calls broadcast_exit, then peer.shutdown()
StartQuit(t) ==
    /\ Invoke(t, BroadcastExit("/quit"))
    /\ UNCHANGED <<engineVars, peerVars>>

\* signal::ctrl_c().await completes: handle_signals calls broadcast_exit
StartHandleSignals(t) ==
    /\ Invoke(t, BroadcastExit("handle_signals"))
    /\ UNCHANGED <<engineVars, peerVars>>

\* let peers = peer.peers.lock().await;
BeLock(t) ==
    /\ At(t, "broadcast_exit", "be_lock")
    /\ peers_lock = NoTask
    /\ IF DOMAIN peers = {}
       THEN /\ task' = [task EXCEPT ![t] =
                           Returned([task[t] EXCEPT !.exit_broadcast = TRUE], "Ok")]
            /\ UNCHANGED peers_lock
       ELSE /\ peers_lock' = t
            /\ task' = [task EXCEPT ![t].pc = "be_send", ![t].todo = DOMAIN peers]
    /\ UNCHANGED <<engineVars, peers, known_keys, display, discovery_sent, received, intake,
                   network, calls>>

\* one iteration of `for peer in peers.values()`: the connection is refused,
\* or the Exit is written and the result of the write discarded
BeSend(t) ==
    /\ At(t, "broadcast_exit", "be_send")
    /\ \E id \in task[t].todo :
       \E written \in {{}} \cup {{Written(id, task[t].msg[1], ok)} : ok \in BOOLEAN} :
          LET cur == [task[t] EXCEPT !.todo = @ \ {id}, !.out = @ \cup written]
          IN  /\ task' = [task EXCEPT ![t] =
                             IF cur.todo = {}
                             THEN Returned([cur EXCEPT !.exit_broadcast = TRUE], "Ok")
                             ELSE cur]
              /\ peers_lock' = IF cur.todo = {} THEN NoTask ELSE peers_lock
    /\ UNCHANGED <<engineVars, peers, known_keys, display, discovery_sent, received, intake,
                   network, calls>>

\* peer.shutdown().await in the "/quit" arm: shutdown calls broadcast_exit again
QuitShutdown(t) ==
    /\ At(t, "/quit", "quit_shutdown")
    /\ task' = [task EXCEPT ![t].op = "broadcast_exit", ![t].caller = "shutdown",
                            ![t].pc = "be_lock"]
    /\ UNCHANGED <<engineVars, peerVars, calls>>

\* tokio::time::sleep(Duration::from_millis(300)).await
SdSleep(t) ==
    /\ At(t, "shutdown", "sd_sleep")
    /\ task' = [task EXCEPT ![t].pc = "sd_exit", ![t].slept = TRUE]
    /\ UNCHANGED <<engineVars, peerVars, calls>>

\* std::process::exit(0), in Peer::shutdown and in handle_signals
ProcessExit(t) ==
    /\ At(t, "shutdown", "sd_exit") \/ At(t, "handle_signals", "hs_exit")
    /\ task' = [task EXCEPT ![t].pc = "exited"]
    /\ UNCHANGED <<engineVars, peerVars, calls>>

ShutdownStep(t) ==
    \/ StartQuit(t) \/ StartHandleSignals(t) \/ BeLock(t) \/ BeSend(t)
    \/ QuitShutdown(t) \/ SdSleep(t) \/ ProcessExit(t)

\* nothing runs after the exit of the process
NextShutdown == ~Terminated /\ (HandleDiscovery \/ \E t \in Tasks : ShutdownStep(t))

\* a peer that learns of peers and is shut down, by /quit, by Ctrl-C or both
SpecShutdown == Init /\ [][NextShutdown]_vars

----------------------------------------------------------------------------
(* The display bus: tokio::sync::broadcast::channel(100) of Peer::new, its
   producers (message_sender.send) and its consumer start_message_display.
   `display` holds every line sent, oldest first; the channel retains the
   last DisplayCapacity of them, and the receiver holds the position of the
   next line it reads *)

DisplayCapacity == 100

\* the task running start_message_display has subscribed
Subscribed(t) == task[t].op = "start_message_display"

\* the number of sent lines the channel no longer retains
Dropped == IF Len(display) > DisplayCapacity THEN Len(display) - DisplayCapacity ELSE 0

\* the lines sent that the receiver has not read, retained or not
Backlog(t) == Len(display) - task[t].pos

\* message_sender.send(display_msg) of a producer, here the line of an
\* unsigned Chat: it takes the slot of the oldest retained line when the
\* channel is full
MessageSenderSend ==
    /\ Len(display) < MaxPublished
    /\ Publish("unsigned", <<"b">>, <<"h", "i">>)
    /\ UNCHANGED <<engineVars, peers, peers_lock, known_keys, discovery_sent, received, intake,
                   network, task, calls>>

\* peer.message_sender.subscribe(): the receiver starts at the lines sent
\* from now on
StartMessageDisplay(t) ==
    /\ \A u \in Tasks : ~Subscribed(u)
    /\ Invoke(t, [Idle EXCEPT !.op = "start_message_display", !.pc = "recv",
                              !.pos = Len(display)])
    /\ UNCHANGED <<engineVars, peerVars>>

\* A consumer that leaves its loop when it is told that it lagged
MdRecv_breaks_on_lag(t) ==
    /\ At(t, "start_message_display", "recv")
    /\ task[t].pos < Len(display)
    /\ task' = IF task[t].pos < Dropped
               THEN [task EXCEPT ![t].pos = Dropped, ![t].result = "Lagged",
                                 ![t].missed = Dropped - task[t].pos, ![t].pc = "done"]
               ELSE [task EXCEPT ![t].pos = task[t].pos + 1, ![t].result = "Ok"]
    /\ UNCHANGED <<engineVars, peerVars, calls>>

\* one iteration of the loop: receiver.recv().await returns
\* Err(Lagged(n)) when the next line is no longer retained, and moves the
\* receiver to the oldest retained line; else it returns the next line, which
\* is printed; with no line to read it waits (`missed` keeps the n of the
\* last Lagged).  Both arms stay in the loop
\* (Closed does not occur: the Peer owns message_sender)
MdRecv(t) ==
    /\ At(t, "start_message_display", "recv")
    /\ task[t].pos < Len(display)
    /\ task' = IF task[t].pos < Dropped
               THEN [task EXCEPT ![t].pos = Dropped, ![t].result = "Lagged",
                                 ![t].missed = Dropped - task[t].pos]
               ELSE [task EXCEPT ![t].pos = task[t].pos + 1, ![t].result = "Ok"]
    /\ UNCHANGED <<engineVars, peerVars, calls>>

NextDisplay == MessageSenderSend \/ \E t \in Tasks : StartMessageDisplay(t) \/ MdRecv(t)

\* producers and the consumer of the display bus
SpecDisplay == Init /\ [][NextDisplay]_vars

----------------------------------------------------------------------------
(* Claims about the decision engine *)

\* no task is inside an operation
Quiescent == \A t \in Tasks : task[t].pc = "done"

\* the number of votes of voter x stored for proposal id
VotesOf(id, x) ==
    Cardinality({i \in 1..Len(GetOrEmpty(votes, id)) : votes[id][i].voter_id = x})

\* the number of approved=true votes stored for proposal id
Approvals(id) ==
    Cardinality({i \in 1..Len(GetOrEmpty(votes, id)) : votes[id][i].approved})

StepOf(t) == task'[t] # task[t]

\* C1: between operations, a stored proposal is Approved if and only if its
\* approved=true votes number at least its required_approvals
C1_ThresholdCorrectness ==
    Quiescent =>
        \A id \in (DOMAIN proposals) \cap (DOMAIN proposal_states) :
            (proposal_states[id] = "Approved")
                <=> (Approvals(id) >= proposals[id].required_approvals)

\* C2: once is_secure_only_enabled() is true, it is true after every later step
C2_LatchingFlag == [][is_secure_only_enabled => is_secure_only_enabled']_vars

\* the flag is latched and a later received vote was recounted below the threshold
C2_Witness ==
    /\ is_secure_only_enabled
    /\ \E t \in Tasks :
          /\ task[t].op = "handle_received_vote" /\ task[t].pc = "done"
          /\ task[t].proposal_id \in DOMAIN proposals
          /\ Approvals(task[t].proposal_id) > 0
          /\ Approvals(task[t].proposal_id)
                < proposals[task[t].proposal_id].required_approvals

\* C3: a proposal's vote list holds at most one vote of each voter
C3_OneVotePerVoter ==
    \A id \in DOMAIN votes : \A x \in Voters : VotesOf(id, x) <= 1

\* C4: a cast_vote by a voter whose vote is already in the proposal's list
\* changes no vote list, no proposal state and not the flag, never reaches the
\* append, and returns an error
C4_DuplicateVoteRejected ==
    [][\A t \in Tasks :
          ( /\ task[t].op = "cast_vote"
            /\ task[t].pc \in {"cv_state", "cv_voted"}
            /\ VotesOf(task[t].proposal_id, task[t].vote[1].voter_id) > 0
            /\ StepOf(t) )
          => ( /\ votes' = votes
               /\ proposal_states' = proposal_states
               /\ secure_only_enabled' = secure_only_enabled
               /\ task'[t].pc \in {"cv_voted", "done"}
               /\ (task'[t].pc = "done" => task'[t].result = "Err") )]_vars

\* a second cast_vote with the opposite value was refused by the duplicate
\* check, and the first vote is still the only one
C4_Witness ==
    \E t \in Tasks :
        /\ task[t].op = "cast_vote" /\ task[t].pc = "done" /\ task[t].result = "Err"
        /\ task[t].proposal_id \in DOMAIN proposal_states
        /\ proposal_states[task[t].proposal_id] = "Open"
        /\ votes[task[t].proposal_id]
             = <<UpgradeVote(task[t].proposal_id, task[t].vote[1].voter_id,
                             ~task[t].vote[1].approved)>>

\* C5: no step of insert_received_proposal changes a proposal that is stored
\* with its state, nor that proposal's vote list or state
C5_InsertNeverOverwrites ==
    [][\A t \in Tasks :
          (task[t].op = "insert_received_proposal" /\ StepOf(t))
          => \A id \in (DOMAIN proposals) \cap (DOMAIN proposal_states) \cap (DOMAIN votes) :
                /\ proposals'[id] = proposals[id]
                /\ votes'[id] = votes[id]
                /\ proposal_states'[id] = proposal_states[id]]_vars

----------------------------------------------------------------------------
(* Claims about the peer *)

\* C6: the proposal propose_secure_upgrade builds has total_peers N = registry
\* size + 1 and required_approvals M = floor(N / 2) + 1, a strict majority of N
C6_SimpleMajority ==
    [][\A t \in Tasks :
          (At(t, "propose_secure_upgrade", "psu_peers") /\ StepOf(t))
          => LET proposal == task'[t].proposal[1]
             IN  /\ proposal.total_peers = Cardinality(DOMAIN peers) + 1
                 /\ proposal.required_approvals = (proposal.total_peers \div 2) + 1
                 /\ 2 * proposal.required_approvals > proposal.total_peers]_vars

\* C7: a broadcast_unsigned_message called while the flag is true writes
\* nothing, does not get past its flag check, and returns an error
C7_UnsignedRefusedWhenLatched ==
    \A t \in Tasks :
        (task[t].op = "broadcast_unsigned_message" /\ task[t].secure_at_call)
        => /\ task[t].out = {}
           /\ task[t].pc \in {"bum_flag", "done"}
           /\ (task[t].pc = "done" => task[t].result = "Err")

\* broadcast_unsigned_message was called with the flag true and a peer in the
\* registry, and has returned its error
C7_Witness ==
    \E t \in Tasks :
        /\ task[t].op = "broadcast_unsigned_message" /\ task[t].secure_at_call
        /\ task[t].pc = "done" /\ task[t].result = "Err"
        /\ DOMAIN peers # {}

\* C8: a handler of an inbound Chat that started with the flag true publishes
\* no unsigned line
C8_UnsignedChatNotPublished ==
    [][\A t \in Tasks :
          (task[t].op = "handle_chat_message" /\ task[t].secure_at_call /\ StepOf(t))
          => \A i \in (Len(display) + 1)..Len(display') : display'[i].kind # "unsigned"]_vars

\* C9: a broadcast_message called while the flag is true writes SignedChat
\* messages only
C9_SignedOnlyWhenLatched ==
    \A t \in Tasks :
        (task[t].op = "broadcast_message" /\ task[t].secure_at_call)
        => \A w \in task[t].out : w.msg.variant = "SignedChat"

\* broadcast_message was called with the flag true, and has returned after a
\* write that succeeded and a write that failed
C9_Witness ==
    \E t \in Tasks :
        /\ task[t].op = "broadcast_message" /\ task[t].secure_at_call
        /\ task[t].pc = "done" /\ task[t].result = "Ok"
        /\ \E w \in task[t].out : w.ok
        /\ \E w \in task[t].out : ~w.ok

\* C10: every registry entry has an id that is not empty after trim, a name
\* that is not empty after trim and at most 128 long, a port above 0 and an
\* address that is neither loopback nor multicast
C10_RegistryValidity ==
    \A id \in DOMAIN peers :
        /\ trim(peers[id].id) # <<>>
        /\ trim(peers[id].name) # <<>>
        /\ Len(peers[id].name) <= 128
        /\ peers[id].port > 0
        /\ peers[id].ip[1] # 127
        /\ peers[id].ip[1] \notin 224..239

\* the registry holds an entry the observe loop inserted and one a Discovery
\* message inserted, after every message of the behaviour is processed
C10_Witness ==
    /\ received = MaxReceived
    /\ Cardinality(DOMAIN peers) = 2
    /\ \E id \in DOMAIN peers : id \in DOMAIN discovery_sent
    /\ \E id \in DOMAIN peers : id \notin DOMAIN discovery_sent

\* C11: no registry entry is stored under the local peer_id or carries it
C11_NoSelfEntry ==
    /\ peer_id \notin DOMAIN peers
    /\ \A id \in DOMAIN peers : peers[id].id # peer_id

\* a record carrying the local id was skipped while the registry holds another peer
C11_Witness ==
    /\ intake # None
    /\ intake[1].outcome = "self"
    /\ DOMAIN peers # {}

\* C12: an entry leaves the registry only in the step that processes an Exit
\* for its id (no task moves, no mDNS response or Discovery is processed), that
\* step removes no other entry and changes none, and an Exit for an unknown id
\* changes nothing
C12_RemovedOnlyByExit ==
    [][LET gone == (DOMAIN peers) \ (DOMAIN peers')
       IN  /\ gone # {}
              => /\ Cardinality(gone) = 1
                 /\ task' = task
                 /\ received' = received
                 /\ intake' = Some(Intake("Exit", "removed"))
                 /\ DOMAIN peers' = (DOMAIN peers) \ gone
                 /\ \A id \in DOMAIN peers' : peers'[id] = peers[id]
           /\ (task' = task /\ received' = received /\ intake' = Some(Intake("Exit", "unknown")))
              => peers' = peers]_vars

\* an Exit removed one entry and another entry is still registered, after a
\* fan-out that began with both has ended
C12_Witness ==
    /\ intake = Some(Intake("Exit", "removed"))
    /\ Cardinality(DOMAIN peers) = 1
    /\ \E t \in Tasks : task[t].pc = "done" /\ Cardinality({w.to : w \in task[t].out}) = 2

\* C13: a task that connects or writes to a peer of its fan-out does not hold
\* the registry lock while it does so
C13_NoLockAcrossSend ==
    [][\A t \in Tasks :
          (task[t].todo # {} /\ task'[t].todo # task[t].todo) => peers_lock # t]_vars

\* C14: no task holds the guards of two shared tables at once
C14_LocksNeverNested == \A t \in Tasks : Cardinality(guards(t)) <= 1

\* C16: a proposal whose state is Approved has the state Approved after every step
C16_ApprovedIsTerminal ==
    [][\A id \in DOMAIN proposal_states :
          proposal_states[id] = "Approved"
            => (id \in DOMAIN proposal_states' /\ proposal_states'[id] = "Approved")]_vars

\* C15: after the proposal and the votes of a decision reached at a remote peer
\* were sent to this peer, this peer eventually has the flag set and the
\* proposal Approved, and keeps them
C15_EventualAgreement ==
    (network # {})
      ~> [](/\ secure_only_enabled
            /\ \A id \in ProposalIds :
                  id \in DOMAIN proposal_states /\ proposal_states[id] = "Approved")

----------------------------------------------------------------------------
(* Claims about signing and verification *)

\* task t returns from verify_message in this step
VerifyReturns(t) ==
    /\ task[t].op = "verify_message"
    /\ task[t].pc # "done"
    /\ task'[t].pc = "done"

\* the key the returning call verified with: the one cached for the signer
\* when the call looked it up, else the attached one
KeyUsed(t) ==
    IF task[t].pc = "verify_lookup"
    THEN known_keys[task[t].msg[1].signer_id]
    ELSE task[t].msg[1].public_key.key

\* C17 as stated: verify returns Ok(true) for every unchanged output of sign,
\* and never for one whose content or timestamp was changed
C17_RoundTripInEveryState ==
    [][\A t \in Tasks :
          VerifyReturns(t)
            => LET m == task[t].msg[1]
               IN  /\ m \in Signed => task'[t].result = "Ok(true)"
                   /\ (\E g \in Signed : m \in Mutated(g, "message") \cup Mutated(g, "timestamp"))
                        => task'[t].result # "Ok(true)"]_vars

\* C17, amended: for an unchanged output of sign, verify returns Ok(true) when
\* no key was cached for the signer or the signer's key was, and Ok(false) when
\* another key was; for one whose content or timestamp was changed it never
\* returns Ok(true)
C17_RoundTrip ==
    [][\A t \in Tasks :
          VerifyReturns(t)
            => LET m == task[t].msg[1]
               IN  /\ m \in Signed
                        => task'[t].result =
                             (IF KeyUsed(t) = RemoteManager.signing_key
                              THEN "Ok(true)" ELSE "Ok(false)")
                   /\ (\E g \in Signed : m \in Mutated(g, "message") \cup Mutated(g, "timestamp"))
                        => task'[t].result # "Ok(true)"]_vars

\* an unchanged message whose content holds the separator was verified, and a
\* copy of a signed message with another timestamp was refused
C17_Witness ==
    \E t, u \in Tasks :
       /\ task[t].op = "verify_message" /\ task[t].pc = "done"
       /\ task[t].msg[1] \in Signed /\ task[t].msg[1].message = <<"h", ":", "1">>
       /\ task[t].result = "Ok(true)"
       /\ task[u].op = "verify_message" /\ task[u].pc = "done"
       /\ \E g \in Signed : task[u].msg[1] \in Mutated(g, "timestamp")
       /\ task[u].result = "Ok(false)"

\* C18: verify does not return Ok(true) for a signed message of which one of
\* message, timestamp, signature or public_key was replaced, whatever key is
\* cached for the signer
C18_TamperDetected ==
    [][\A t \in Tasks :
          VerifyReturns(t)
            => LET m == task[t].msg[1]
               IN  (\E g \in Signed, f \in MutableFields : m \in Mutated(g, f))
                     => task'[t].result # "Ok(true)"]_vars

----------------------------------------------------------------------------
(* Claims about the error paths and the independence of proposals *)

\* C19: a cast_vote that finds no state entry for its proposal id, or a state
\* other than Open, returns an error in that step, whoever the voter is, and
\* the step changes no vote list, no state and not the flag
C19_CastVoteRefused ==
    [][\A t \in Tasks :
          (/\ task[t].op = "cast_vote"
           /\ task[t].pc = "cv_state"
           /\ task'[t] # task[t]
           /\ \/ task[t].proposal_id \notin DOMAIN proposal_states
              \/ proposal_states[task[t].proposal_id] # "Open")
            => /\ task'[t].pc = "done"
               /\ task'[t].result = "Err"
               /\ votes' = votes
               /\ proposal_states' = proposal_states
               /\ secure_only_enabled' = secure_only_enabled]_vars

\* a voter with no vote on an Approved proposal was refused, and the proposal
\* holds the votes it held
C19_Witness ==
    \E t \in Tasks :
       /\ task[t].op = "cast_vote" /\ task[t].pc = "done" /\ task[t].result = "Err"
       /\ task[t].proposal_id \in DOMAIN proposal_states
       /\ proposal_states[task[t].proposal_id] = "Approved"
       /\ VotesOf(task[t].proposal_id, task[t].vote[1].voter_id) = 0
       /\ Approvals(task[t].proposal_id) > 0

\* the proposals stored with the state Open
OpenProposals ==
    {proposals[id] : id \in {k \in (DOMAIN proposals) \cap (DOMAIN proposal_states) :
                                proposal_states[k] = "Open"}}

\* the entry of table for id, if any
EntryOf(table, id) == IF id \in DOMAIN table THEN Some(table[id]) ELSE None

\* C20: a step of cast_vote or handle_received_vote on one proposal changes
\* neither the vote list nor the state of any other proposal, and
\* get_active_proposals returns exactly the proposals whose state is Open
C20_ProposalsIndependent ==
    [][\A t \in Tasks :
          /\ (StepOf(t) /\ task[t].pc # "done"
                /\ task[t].op \in {"cast_vote", "handle_received_vote"})
               => \A other \in TwoProposalIds \ {task[t].proposal_id} :
                     /\ EntryOf(votes', other) = EntryOf(votes, other)
                     /\ EntryOf(proposal_states', other) = EntryOf(proposal_states, other)
          /\ (StepOf(t) /\ task[t].op = "get_active_proposals" /\ task'[t].pc = "done")
               => task'[t].active = OpenProposals]_vars

\* p1 was approved by a vote while p2 stayed Open without a vote, and the query
\* listed p2 alone
C20_Witness ==
    /\ {"p1", "p2"} \subseteq DOMAIN proposal_states
    /\ proposal_states["p1"] = "Approved" /\ Approvals("p1") > 0
    /\ proposal_states["p2"] = "Open" /\ GetOrEmpty(votes, "p2") = <<>>
    /\ \E t \in Tasks :
          /\ task[t].op = "get_active_proposals" /\ task[t].pc = "done"
          /\ task[t].active = {proposals["p2"]}

----------------------------------------------------------------------------
(* Claims about a peer alone, Peer::new, the mDNS observe loop, the
   connection loop, the fan-out, shutdown and KnownKeys *)

\* the proposal a call of propose_secure_upgrade or vote_on_proposal by task t
\* is about was created while the registry was empty
AloneProposal(t) ==
    /\ task[t].proposal_id \in DOMAIN proposals
    /\ proposals[task[t].proposal_id].total_peers = 1

\* C21: a proposal made while the registry is empty is Open, hence listed as
\* active, once propose_secure_upgrade has returned it and until a vote is
\* stored for it; and once cast_vote has accepted this peer's approval of such
\* a proposal for vote_on_proposal, the secure-only flag is true
C21_AloneReachesThreshold ==
    \A t \in Tasks :
        /\ (/\ task[t].op = "propose_secure_upgrade"
            /\ task[t].pc = "done"
            /\ task[t].result = "Ok"
            /\ AloneProposal(t)
            /\ Len(GetOrEmpty(votes, task[t].proposal_id)) = 0)
              => /\ task[t].proposal_id \in DOMAIN proposal_states
                 /\ proposal_states[task[t].proposal_id] = "Open"
        /\ (/\ task[t].op = "vote_on_proposal"
            /\ (task[t].pc # "done" \/ task[t].result = "Ok")
            /\ task[t].vote # None
            /\ task[t].vote[1].approved
            /\ AloneProposal(t))
              => secure_only_enabled

\* vote_on_proposal has returned Ok for this peer's approval of a proposal made
\* while the registry was empty
C21_Witness ==
    \E t \in Tasks :
        /\ task[t].op = "vote_on_proposal"
        /\ task[t].pc = "done"
        /\ task[t].result = "Ok"
        /\ task[t].vote[1].approved
        /\ AloneProposal(t)
        /\ VotesOf(task[t].proposal_id, peer_id) = 1
        /\ secure_only_enabled

\* C22: every stored proposal state is Open or Approved, never Rejected
C22_NeverRejected ==
    \A id \in DOMAIN proposal_states : proposal_states[id] \in {"Open", "Approved"}

\* between operations, a proposal that needs two approvals holds one approval
\* and a rejection, and is Open
C22_Witness ==
    /\ Quiescent
    /\ \E id \in (DOMAIN proposal_states) \cap (DOMAIN proposals) :
          /\ proposals[id].required_approvals = 2
          /\ Approvals(id) = 1
          /\ Len(GetOrEmpty(votes, id)) - Approvals(id) >= 1
          /\ proposal_states[id] = "Open"

\* the name and the port task t gave to Peer::new
NameGiven(t) == task[t].msg[1][1]

PortGiven(t) == task[t].msg[1][2]

C24_PortNormalised ==
    \A t \in Tasks :
        task[t].op = "Peer::new" =>
            task[t].peer[1].port = IF PortGiven(t) = 0 THEN 8080 ELSE PortGiven(t)

\* one call of Peer::new was given port 0 and another the largest port
C24_Witness ==
    \E t, u \in Tasks :
        /\ task[t].op = "Peer::new" /\ PortGiven(t) = 0 /\ task[t].peer[1].port = 8080
        /\ task[u].op = "Peer::new" /\ PortGiven(u) = MaxPort /\ task[u].peer[1].port = MaxPort

\* the TXT records of the response hold no app=p2pchat tag
Untagged(response) == response.txt = None \/ ~response.txt[1].app_tag

UntaggedResponses == {response \in MdnsResponses : Untagged(response)}

\* C25: an iteration of the observe loop on a response without the
\* app=p2pchat tag inserts nothing into the registry and sends no Discovery
C25_UntaggedIgnored ==
    [][\A response \in UntaggedResponses :
          (received' # received /\ MdnsObserve(response))
              => (peers' = peers /\ discovery_sent' = discovery_sent)]_vars

\* the registry entry and the Discovery count of id
Registered(id) == IF id \in DOMAIN peers THEN Some(peers[id]) ELSE None

SentTo(id) == IF id \in DOMAIN discovery_sent THEN discovery_sent[id] ELSE 0

\* the responses that pass the checks of the observe loop
AcceptedResponses == {response \in MdnsResponses : mdns_accepts(response)}

\* C26: every response that passes the checks of the observe loop leaves its
\* record in the registry under its id; a Discovery is sent only in a step that
\* takes one id from unregistered to registered, and exactly one is sent to
\* that id in every such step of the observe loop
C26_DiscoveryOnFirstSight ==
    [][/\ \A response \in AcceptedResponses :
             (received' # received /\ MdnsObserve(response))
                 => LET id == mdns_peer_id(response)
                    IN  /\ Registered(id)' =
                              Some(PeerInfo(id, mdns_peer_name(response), response.addr[1],
                                            mdns_peer_port(response)))
                        /\ SentTo(id)' = SentTo(id) + (IF id \in DOMAIN peers THEN 0 ELSE 1)
       /\ \A id \in (DOMAIN discovery_sent) \cup (DOMAIN discovery_sent') :
             /\ SentTo(id)' \in {SentTo(id), SentTo(id) + 1}
             /\ SentTo(id)' # SentTo(id)
                   => /\ id \notin DOMAIN peers
                      /\ id \in DOMAIN peers'
                      /\ \A other \in ((DOMAIN discovery_sent) \cup (DOMAIN discovery_sent')) \ {id} :
                            SentTo(other)' = SentTo(other)]_vars

\* a peer was discovered, left, and was discovered again: two Discovery
\* messages were sent to it, and it is registered
C26_Witness ==
    \E id \in DOMAIN peers : SentTo(id) = 2

\* the reads of the connection of task t that the loop has passed
Passed(t) ==
    SubSeq(task[t].stream, 1, task[t].pos - (IF task[t].pc = "tcp_dispatch" THEN 1 ELSE 0))

IsMessage(read) == read.variant \notin {"undecodable", "io_error"}

\* what task t has dispatched is what decoded among the reads it has passed,
\* in the order of the reads
InArrivalOrder(t) == task[t].dispatched = SelectSeq(Passed(t), IsMessage)

\* C27: a read that does not decode changes nothing but the position of the
\* loop, which stays in the connection and has the following reads before it;
\* and a connection's messages are dispatched in the order of its reads, none
\* of those that decode passed over
C27_DecodeFailureDropped ==
    [][\A t \in Tasks :
          /\ (/\ At(t, "handle_tcp_connection", "tcp_read")
              /\ task[t].pos < Len(task[t].stream)
              /\ task[t].stream[task[t].pos + 1].variant = "undecodable"
              /\ StepOf(t))
                => /\ UNCHANGED <<proposals, votes, partial_signatures, proposal_states,
                                  secure_only_enabled, peers, peers_lock, known_keys, display,
                                  discovery_sent, received, intake, network>>
                   /\ task'[t] = [task[t] EXCEPT !.pos = @ + 1]
          /\ (task[t].op = "handle_tcp_connection")' => InArrivalOrder(t)']_vars

\* a connection whose first read did not decode has been read to its end, and
\* the two messages that followed are on the display bus in their order
C27_Witness ==
    \E t \in Tasks :
        /\ task[t].op = "handle_tcp_connection"
        /\ task[t].pc = "done"
        /\ task[t].result = "Ok"
        /\ task[t].stream = <<Undecodable, Hi, Yo>>
        /\ task[t].pos = 3
        /\ Len(display) >= 2
        /\ display[Len(display) - 1].content = Hi.body.content
        /\ display[Len(display)].content = Yo.body.content

\* the positions of a task inside the loop of a fan-out
SendingAt == {"bup_send", "bpv_send", "bm_send", "bsm_send", "bum_send"}

\* the recipients task t has written to with success
Reached(t) == {w.to : w \in {x \in task[t].out : x.ok}}

\* C28: an iteration of a fan-out takes one recipient off the snapshot,
\* whatever connect and write did; the fan-out goes on under the guard while
\* recipients are left and returns Ok after the last one; and its count of
\* successful sends is the number of recipients a write to which succeeded
C28_FanOutSurvivesFailure ==
    [][\A t \in Tasks :
          (task[t].pc \in SendingAt /\ StepOf(t))
              => /\ \E id \in task[t].todo :
                       IF task[t].todo = {id}
                       THEN /\ task'[t].pc = "done"
                            /\ task'[t].result = "Ok"
                            /\ peers_lock' = NoTask
                       ELSE /\ task'[t].pc = task[t].pc
                            /\ task'[t].todo = task[t].todo \ {id}
                            /\ peers_lock' = t
                 /\ task'[t].successful_sends = Cardinality(Reached(t)')
                 /\ Reached(t) \subseteq Reached(t)']_vars

\* the writes to both recipients of a fan-out failed, and it returned Ok with
\* no successful send
C28_Witness ==
    \E t \in Tasks :
        /\ task[t].pc = "done"
        /\ task[t].result = "Ok"
        /\ task[t].successful_sends = 0
        /\ Cardinality({w.to : w \in task[t].out}) = 2

\* C29: the process has not terminated unless the task that called exit has
\* broadcast Exit and has waited for the flush window after it
C29_ExitAfterBroadcastAndWait ==
    \A t \in Tasks :
        task[t].pc = "exited" => (task[t].exit_broadcast /\ task[t].slept)

\* C30: a step of verify_message leaves every entry KnownKeys holds in place
\* and unchanged: it adds entries for absent ids only
C30_VerifyNeverReplaces ==
    [][\A id \in DOMAIN known_keys :
          /\ id \in DOMAIN known_keys'
          /\ known_keys'[id] = known_keys[id]]_vars

----------------------------------------------------------------------------
(* Claims about the results of verify_message, the display bus, the locks
   and the tables of the decision engine *)

\* the attached key is 32 bytes that parse
WellFormedKey(m) == m.public_key.len = 32 /\ m.public_key.key # NotAPoint

\* the signature is 64 bytes
WellFormedSignature(m) == m.signature.len = 64

\* the returning call found a key cached for the signer
FoundCached(t) ==
    task[t].pc = "verify_lookup" /\ task[t].msg[1].signer_id \in DOMAIN known_keys

Booleans == {"Ok(true)", "Ok(false)"}

\* C31 as stated: verify returns Err(InvalidPublicKey) when the attached key
\* is not 32 bytes or does not parse, Err(InvalidSignature) when the signature
\* is not 64 bytes, and a boolean otherwise, whether or not a key is cached
\* for the signer
C31_ErrorsInEveryCacheState ==
    [][\A t \in Tasks :
          VerifyReturns(t)
            => LET m == task[t].msg[1]
               IN  /\ ~WellFormedKey(m) => task'[t].result = "Err(InvalidPublicKey)"
                   /\ (WellFormedKey(m) /\ ~WellFormedSignature(m))
                        => task'[t].result = "Err(InvalidSignature)"
                   /\ (WellFormedKey(m) /\ WellFormedSignature(m))
                        => task'[t].result \in Booleans]_vars

\* C31, amended: when no key is cached for the signer, verify returns
\* Err(InvalidPublicKey) for an attached key that is not 32 bytes or does not
\* parse, whatever the signature is; when a key is cached the attached key is
\* not examined; once the key is resolved, verify returns
\* Err(InvalidSignature) for a signature that is not 64 bytes and the boolean
\* result of the verification under the resolved key otherwise
C31_Errors ==
    [][\A t \in Tasks :
          VerifyReturns(t)
            => LET m == task[t].msg[1]
                   resolved == FoundCached(t) \/ WellFormedKey(m)
               IN  /\ ~resolved => task'[t].result = "Err(InvalidPublicKey)"
                   /\ (resolved /\ ~WellFormedSignature(m))
                        => task'[t].result = "Err(InvalidSignature)"
                   /\ (resolved /\ WellFormedSignature(m))
                        => task'[t].result =
                             (IF m.signature.key = KeyUsed(t)
                                   /\ m.signature.text = message_to_sign(m.message, m.timestamp)
                              THEN "Ok(true)" ELSE "Ok(false)")]_vars

\* a call with 32 attached bytes that do not parse returned
\* Err(InvalidPublicKey), and a call with a short attached key returned a
\* boolean because a key was cached for the signer
C31_Witness ==
    \E t, u \in Tasks :
       /\ task[t].op = "verify_message" /\ task[t].pc = "done"
       /\ task[t].msg[1].public_key = PublicKeyBytes(NotAPoint)
       /\ task[t].result = "Err(InvalidPublicKey)"
       /\ task[u].op = "verify_message" /\ task[u].pc = "done"
       /\ task[u].msg[1].public_key.len # 32
       /\ task[u].result \in Booleans

\* task t finishes the handling of an inbound Chat or SignedChat in this step
HandlerReturns(t) ==
    /\ task[t].op \in {"handle_chat_message", "handle_signed_chat"}
    /\ task[t].pc # "done"
    /\ task'[t].pc = "done"

\* the line published for a Chat message: unsigned without a signature or a
\* key; else by the signature, checked with the key cached for the sender
\* when the handler looked it up, or with the attached key
ChatLineKind(t) ==
    LET message == task[t].msg[1]
    IN  IF message.signature = None \/ message.public_key = None
        THEN "unsigned"
        ELSE LET signature == message.signature[1]
                 key == IF task[t].pc = "vm_cache"
                        THEN Some(message.public_key[1].key)
                        ELSE IF message.from_id \in DOMAIN known_keys
                             THEN Some(known_keys[message.from_id])
                             ELSE None
             IN  IF key = None \/ signature.len # 64
                 THEN "verification failed"
                 ELSE IF signature.key = key[1]
                           /\ signature.text = message_to_sign(message.content, message.timestamp)
                      THEN "verified"
                      ELSE "INVALID SIGNATURE"

\* the line published for a SignedChat message, by what verify returned
SignedChatLineKind(t) ==
    IF task[t].result = "Ok(true)" THEN "verified"
    ELSE IF task[t].result = "Ok(false)" THEN "INVALID SIGNATURE"
    ELSE "verification failed"

Sends == display' # display

\* this step is an iteration of the consumer loop of task t
Receives(t) == Subscribed(t) /\ task'[t] # task[t]

\* C33: a send is possible whatever the backlog of the consumer, and appends
\* its line; a send on a full backlog leaves the consumer's oldest unread
\* line out of the 100 the channel retains; a consumer whose next line is no
\* longer retained is told Lagged with the number of lines it missed, stays
\* in its loop and next reads the oldest retained line
C33_SendNeverBlocks ==
    [][/\ Len(display) < MaxPublished => ENABLED MessageSenderSend
       /\ Sends => /\ Len(display') = Len(display) + 1
                   /\ SubSeq(display', 1, Len(display)) = display
       /\ \A t \in Tasks :
             /\ (Sends /\ Subscribed(t) /\ Len(display) - task[t].pos >= 100)
                  => Len(display') - 100 > task[t].pos
             /\ (Receives(t) /\ task[t].pos < Len(display) - 100)
                  => /\ task'[t].result = "Lagged"
                     /\ task'[t].missed = Len(display) - 100 - task[t].pos
                     /\ task'[t].pos = Len(display) - 100
                     /\ task'[t].pc = "recv"
                     /\ ENABLED MdRecv(t)
             /\ (Receives(t) /\ task[t].pos >= Len(display) - 100)
                  => /\ task'[t].result = "Ok"
                     /\ task'[t].pos = task[t].pos + 1
                     /\ task'[t].pc = "recv"]_vars

\* the consumer was told that it lagged, after a send on a full backlog, and
\* has read a later line since
C33_Witness ==
    \E t \in Tasks :
       /\ Subscribed(t) /\ task[t].pc = "recv"
       /\ task[t].missed > 0
       /\ task[t].result = "Ok"
       /\ Len(display) > 101

\* the ids of the model are used up: a bound of the model, not a wait
OutOfIds(t) == At(t, "propose_secure_upgrade", "psu_peers") /\ FreshIds = {}

\* task t is inside an operation and its next step waits for a lock
Waiting(t) == task[t].pc # "done" /\ ~OutOfIds(t) /\ ~ENABLED LockStep(t)

\* C34: a task whose next step waits for a lock waits for a guard that
\* another task holds, and that task can take a step: no two tasks wait for
\* each other, and no task waits for a guard of its own
C34_NoCyclicWait ==
    \A t \in Tasks :
        Waiting(t) => \E u \in Tasks \ {t} : guards(u) # {} /\ ENABLED LockStep(u)

\* a task waits for a write guard while the query of another task holds the
\* read guards of proposals and of proposal_states
C34_Witness ==
    \E t, u \in Tasks :
       /\ Waiting(t)
       /\ guards(u) = {"proposals", "proposal_states"}

\* C35: every vote in the vote list of a proposal id is in the list of that
\* id after every step, also a vote recorded before the proposal was inserted
C35_VotesOnlyGrow ==
    [][\A id \in DOMAIN votes :
          /\ id \in DOMAIN votes'
          /\ \A i \in 1..Len(votes[id]) :
                \E j \in 1..Len(votes'[id]) : votes'[id][j] = votes[id][i]]_vars

\* C36: while the secure-only flag is set, some proposal has the state Approved
C36_FlagHasApprovedProposal ==
    secure_only_enabled
      => \E id \in DOMAIN proposal_states : proposal_states[id] = "Approved"

\* C37: a step of broadcast_unsigned_message that writes its unsigned Chat
\* message to a peer is taken while the secure-only flag is false
C37_NoUnsignedWriteAfterLatch ==
    [][\A t \in Tasks :
          (/\ task[t].op = "broadcast_unsigned_message"
           /\ \E w \in task'[t].out \ task[t].out : w.ok /\ w.msg.variant = "Chat")
          => ~secure_only_enabled]_vars

\* C38: whenever get_proposal(id) returns a proposal, get_proposal_state(id)
\* returns a state and the votes table has an entry for id, so that no
\* cast_vote finds the state of a visible proposal missing
C38_TablesConsistent ==
    \A id \in ProposalIds :
        get_proposal(id) # None
        => /\ get_proposal_state(id) # None
           /\ id \in DOMAIN votes

\* C39: a verify call that found no key cached for the signer has cached the
\* attached key when it returns, also when it returns Ok(false) or
\* Err(InvalidSignature); a call that finds a key cached leaves the table as
\* it is and returns what the cached key gives, whatever key is attached
C39_KeyCachedBeforeCheck ==
    [][\A t \in Tasks :
          VerifyReturns(t)
            => LET m == task[t].msg[1]
               IN  /\ (/\ task[t].pc = "verify_insert"
                        /\ task'[t].result \in {"Ok(false)", "Err(InvalidSignature)"})
                        => /\ m.signer_id \in DOMAIN known_keys'
                           /\ known_keys'[m.signer_id] = m.public_key.key
                   /\ FoundCached(t)
                        => /\ known_keys' = known_keys
                           /\ task'[t].result =
                                (IF ~WellFormedSignature(m) THEN "Err(InvalidSignature)"
                                 ELSE IF /\ m.signature.key = known_keys[m.signer_id]
                                         /\ m.signature.text
                                              = message_to_sign(m.message, m.timestamp)
                                      THEN "Ok(true)" ELSE "Ok(false)")]_vars

\* a call returned Err(InvalidSignature) and the key attached to its message
\* is the cached one, and a call whose message carries another key than the
\* one that signed it returned Ok(true)
C39_Witness ==
    \E t, u \in Tasks :
       /\ task[t].op = "verify_message" /\ task[t].pc = "done"
       /\ task[t].result = "Err(InvalidSignature)"
       /\ task[t].msg[1].signer_id \in DOMAIN known_keys
       /\ known_keys[task[t].msg[1].signer_id] = task[t].msg[1].public_key.key
       /\ task[u].op = "verify_message" /\ task[u].pc = "done"
       /\ task[u].msg[1].signer_id = task[t].msg[1].signer_id
       /\ task[u].msg[1].public_key.key # task[u].msg[1].signature.key
       /\ task[u].result = "Ok(true)"

\* C40: handle_received_vote goes on to append the vote of a voter with no
\* vote in the list whatever the state of the proposal is, also when the
\* proposal is not stored; its threshold check of a proposal that is not
\* stored returns and changes no proposal state and not the flag
C40_ReceivedVoteIgnoresState ==
    [][\A t \in Tasks :
          (task[t].op = "handle_received_vote" /\ StepOf(t))
            => LET id == task[t].proposal_id
                   vote == task[t].vote[1]
                   list == IF id \in DOMAIN votes THEN votes[id] ELSE <<>>
               IN  /\ (/\ task[t].pc = "hrv_existing"
                        /\ \A i \in 1..Len(list) : list[i].voter_id # vote.voter_id)
                        => task'[t].pc = "hrv_push"
                   /\ task[t].pc = "hrv_push"
                        => /\ id \in DOMAIN votes'
                           /\ votes'[id] = Append(list, vote)
                   /\ (task[t].pc = "ct_proposal" /\ id \notin DOMAIN proposals)
                        => /\ task'[t].pc = "done"
                           /\ proposal_states' = proposal_states
                           /\ secure_only_enabled' = secure_only_enabled]_vars

\* handle_received_vote has returned, its approving vote is in the list of a
\* proposal that is not stored and has no state, and the flag is not set
C40_Witness ==
    \E t \in Tasks :
       /\ task[t].op = "handle_received_vote" /\ task[t].pc = "done"
       /\ task[t].vote[1].approved
       /\ task[t].proposal_id \notin DOMAIN proposals
       /\ task[t].proposal_id \notin DOMAIN proposal_states
       /\ task[t].proposal_id \in DOMAIN votes
       /\ \E i \in 1..Len(votes[task[t].proposal_id]) :
              votes[task[t].proposal_id][i] = task[t].vote[1]
       /\ ~secure_only_enabled

====
